---- MODULE Spec2Model ----
(***************************************************************************)
(* Like / unlike transaction engine of the community feed                  *)
(* (backend/feed/views.py, backend/feed/models.py).                        *)
(*                                                                         *)
(* The store is a relational database with READ COMMITTED transactions:    *)
(* every worker buffers the writes of its open transaction.atomic() block  *)
(* in tx[w]; they become visible to the others at commit.  Row locks       *)
(* (select_for_update and the locks UPDATE takes) are held until the       *)
(* transaction ends.                                                       *)
(***************************************************************************)
EXTENDS Integers, Sequences, FiniteSets, TLC

VARIABLES
    users,        \* usernames of the rows of table users
    total_karma,  \* User.total_karma, per username
    posts,        \* table posts: pk -> [author]
    comments,     \* table comments: pk -> [author, post, parent, content]
    likes_count,  \* Post.likes_count / Comment.likes_count, per <<type, pk>>
    likes,        \* table likes: number of rows per <<user, target_type, target_id>>
    karma,        \* table karma_transactions, in insertion order
    locks,        \* row locks held: set of <<worker, table, key>>
    pc,           \* position of each worker in its handler
    req,          \* the request each worker is serving
    user,         \* local variable user of the handler
    tx,           \* uncommitted writes of each worker's transaction
    nreq,         \* number of requests received so far
    overlapped,   \* TRUE once two requests were in flight together
    log,          \* the requests answered so far, in the order of their responses
    now,          \* timezone.now(), in hours
    flat,         \* the Comment objects last fetched into memory, in list order
    objs          \* _prefetched_replies and _liked_by_user of those objects, per id

vars == <<users, total_karma, posts, comments, likes_count, likes, karma,
          locks, pc, req, user, tx, nreq, overlapped, log, now, flat, objs>>

(* What the like and unlike handlers never touch *)
aux == <<now, flat, objs>>

db == <<users, total_karma, posts, comments, likes_count, likes, karma>>

----------------------------------------------------------------------------
(* Bounds *)

MaxRequests == 3
(* Hours the clock may advance *)
MaxTicks == 1
(* Length of the comment lists given to build_comment_tree *)
MaxComments == 3
(* Number of requests that create a post *)
MaxPostRequests == 2

Workers == {"w1", "w2"}

(* Program constants *)

POST_LIKE_KARMA == 5
COMMENT_LIKE_KARMA == 1
DEMO_TOTAL_KARMA == 100
(* timedelta(hours=24) and the slice [:5] of LeaderboardView.get *)
WINDOW_HOURS == 24
LEADERBOARD_LIMIT == 5
(* Post.content = models.TextField(max_length=2000) *)
POST_MAX_LENGTH == 2000

TARGET_POST == "post"
TARGET_COMMENT == "comment"
REASON_POST_LIKE == "post_like"
REASON_COMMENT_LIKE == "comment_like"
DemoUser == "demo_user"

(* request.user of a request that carries no valid credentials *)
Anonymous == "anonymous"
None == "none"
(* parent_id of a comment that has no parent (the column is NULL) *)
NoParent == 0

RegisteredUsers == {"u1", "u2"}
AllUsers == RegisteredUsers \cup {DemoUser}
(* u1 is the author of post 1; comment 1 is by u2 *)
Callers == {"u1", Anonymous}
TargetTypes == {TARGET_POST, TARGET_COMMENT}
Pks == {1, 2}
Targets == TargetTypes \X Pks
Triples == AllUsers \X TargetTypes \X Pks
Ops == {"like", "unlike"}

NoReq == [op |-> None, caller |-> None, target_type |-> None, pk |-> 0]
NoTx == [like |-> None, dcount |-> 0, karma |-> <<>>, dkarma |-> 0]

----------------------------------------------------------------------------
(* Tables and queries *)

Table(tt) == IF tt = TARGET_POST THEN "posts" ELSE "comments"

Rows(tt) == IF tt = TARGET_POST THEN posts ELSE comments

(* Post.objects.get(pk=pk) / Comment.objects.get(pk=pk) raises DoesNotExist *)
DoesNotExist(tt, pk) == pk \notin DOMAIN Rows(tt)

Author(tt, pk) == Rows(tt)[pk].author

(* Mutant: the comment view awards what the post view awards *)
KarmaAmountOfPost(tt) == POST_LIKE_KARMA

KarmaAmount(tt) == IF tt = TARGET_POST THEN POST_LIKE_KARMA ELSE COMMENT_LIKE_KARMA

KarmaReason(tt) == IF tt = TARGET_POST THEN REASON_POST_LIKE ELSE REASON_COMMENT_LIKE

Target(w) == <<req[w].target_type, req[w].pk>>

Triple(w) == <<user[w], req[w].target_type, req[w].pk>>

(* A row lock on <<table, key>> held by a transaction other than w's *)
LockedByOther(w, table, key) ==
    \E o \in Workers \ {w} : <<o, table, key>> \in locks

(* Rows of table likes with this triple that w's transaction sees:      *)
(* the committed ones and its own uncommitted insert or delete.         *)
VisibleLikes(w, triple) ==
    likes[triple]
      + (IF tx[w].like = "insert" /\ Triple(w) = triple THEN 1 ELSE 0)
      - (IF tx[w].like = "delete" /\ Triple(w) = triple THEN 1 ELSE 0)

(* Mutant: the filter leaves target_type out *)
LikeExistsOfAnyType(w) ==
    \E tt \in TargetTypes : VisibleLikes(w, <<user[w], tt, req[w].pk>>) > 0

(* Mutant: the test is negated *)
LikeExistsNegated(w) == ~(VisibleLikes(w, Triple(w)) > 0)

(* Like.objects.filter(user, target_type, target_id).exists() *)
LikeExists(w) == VisibleLikes(w, Triple(w)) > 0

(* Mutant: the table has no unique constraint *)
NoUniqueConstraint(triple) == FALSE

(* unique_together = ['user', 'target_type', 'target_id'] *)
UniqueViolation(triple) == likes[triple] > 0

(* An uncommitted insert or delete of the same key by another transaction: *)
(* the insert waits for that transaction to end.                           *)
KeyBusy(w, triple) ==
    \E o \in Workers \ {w} : tx[o].like # None /\ Triple(o) = triple

(* PositiveIntegerField: CHECK (likes_count >= 0) *)
CheckViolation(value) == value < 0

InFlight(w) == pc[w] # "idle"

----------------------------------------------------------------------------
Init ==
    /\ users = RegisteredUsers
    /\ total_karma = [u \in RegisteredUsers |-> 0]
    /\ posts = (1 :> [author |-> "u1"])
    /\ comments = (1 :> [author |-> "u2", post |-> 1, parent |-> NoParent,
                          content |-> <<"a">>])
    /\ likes_count = [t \in Targets |-> 0]
    /\ likes = [t \in Triples |-> 0]
    /\ karma = <<>>
    /\ locks = {}
    /\ pc = [w \in Workers |-> "idle"]
    /\ req = [w \in Workers |-> NoReq]
    /\ user = [w \in Workers |-> None]
    /\ tx = [w \in Workers |-> NoTx]
    /\ nreq = 0
    /\ overlapped = FALSE
    /\ log = <<>>
    /\ now = WINDOW_HOURS
    /\ flat = <<>>
    /\ objs = <<>>

----------------------------------------------------------------------------
(* End of a transaction.atomic() block *)

(* The response r of worker w goes out; at is the statement of the  *)
(* handler that led to it                                           *)
LogEntry(w, u, r) ==
    [op |-> req[w].op, caller |-> req[w].caller, user |-> u,
     target_type |-> req[w].target_type, pk |-> req[w].pk,
     result |-> r.result, likes |-> r.likes, karma_awarded |-> r.karma_awarded,
     at |-> pc[w]]

Respond(w, u, r) ==
    /\ log' = Append(log, LogEntry(w, u, r))
    /\ pc' = [pc EXCEPT ![w] = "idle"]
    /\ req' = [req EXCEPT ![w] = NoReq]
    /\ user' = [user EXCEPT ![w] = None]

(* The block is left by return: the buffered writes are committed. *)
(* Mutant: the delete is Like.objects.filter(target_type, target_id).delete(), *)
(* without the user                                                           *)
CommitLikesDeletingAllOfTarget(w) ==
    IF tx[w].like = None THEN likes
    ELSE IF tx[w].like = "insert" THEN [likes EXCEPT ![Triple(w)] = @ + 1]
    ELSE [t \in DOMAIN likes |->
             IF <<t[2], t[3]>> = Target(w) THEN 0 ELSE likes[t]]

CommitLikes(w) ==
    IF tx[w].like = None THEN likes
    ELSE [likes EXCEPT ![Triple(w)] = @ + (IF tx[w].like = "insert" THEN 1 ELSE -1)]

CommitLikesCount(w) ==
    IF tx[w].dcount = 0 THEN likes_count
    ELSE [likes_count EXCEPT ![Target(w)] = @ + tx[w].dcount]

CommitKarma(w) == karma \o tx[w].karma

(* Mutant: the total is written back as the amount added to the value *)
(* the author had when the data was loaded                            *)
CommitTotalKarmaWritingBack(w) ==
    IF tx[w].dkarma = 0 THEN total_karma
    ELSE [total_karma EXCEPT ![Author(req[w].target_type, req[w].pk)] = tx[w].dkarma]

CommitTotalKarma(w) ==
    IF tx[w].dkarma = 0 THEN total_karma
    ELSE [total_karma EXCEPT ![Author(req[w].target_type, req[w].pk)] = @ + tx[w].dkarma]

(* Mutant: the lock on the row of the author outlives the transaction *)
ReleaseLocksOfTargetOnly(w) == {l \in locks : l[1] # w \/ l[2] = "users"}

ReleaseLocks(w) == {l \in locks : l[1] # w}

Commit(w, r) ==
    /\ likes' = CommitLikes(w)
    /\ likes_count' = CommitLikesCount(w)
    /\ karma' = CommitKarma(w)
    /\ total_karma' = CommitTotalKarma(w)
    /\ locks' = ReleaseLocks(w)
    /\ tx' = [tx EXCEPT ![w] = NoTx]
    /\ Respond(w, user[w], r)
    /\ UNCHANGED <<users, posts, comments, nreq, overlapped>>

(* The block is left by an exception: the buffered writes are dropped. *)
Rollback(w, r) ==
    /\ locks' = ReleaseLocks(w)
    /\ tx' = [tx EXCEPT ![w] = NoTx]
    /\ Respond(w, user[w], r)
    /\ UNCHANGED <<db, nreq, overlapped>>

Error(result) == [result |-> result, likes |-> 0, karma_awarded |-> 0]

Goto(w, label) == pc' = [pc EXCEPT ![w] = label]

----------------------------------------------------------------------------
(* Requests *)

(* A client sends POST /posts/<pk>/like/, /posts/<pk>/unlike/,        *)
(* /comments/<pk>/like/ or /comments/<pk>/unlike/.                    *)
Request(w, op, caller, tt, pk) ==
    /\ pc[w] = "idle"
    /\ UNCHANGED aux
    /\ nreq < MaxRequests
    /\ req' = [req EXCEPT ![w] =
                 [op |-> op, caller |-> caller, target_type |-> tt, pk |-> pk]]
    /\ nreq' = nreq + 1
    /\ overlapped' = (overlapped \/ \E o \in Workers \ {w} : InFlight(o))
    /\ Goto(w, "auth")
    /\ UNCHANGED <<db, locks, user, tx, log>>

(* Mutant: no demo user, a request without credentials has no actor *)
get_current_user_or_none(caller) == IF caller # Anonymous THEN caller ELSE None

(* _get_current_user: the authenticated user, else the demo user *)
get_current_user(caller) == IF caller # Anonymous THEN caller ELSE DemoUser

(* user = self._get_current_user(request); if not user: 401 *)
GetCurrentUser(w) ==
    /\ pc[w] = "auth"
    /\ UNCHANGED aux
    /\ LET u == get_current_user(req[w].caller) IN
         /\ IF u = None
            THEN /\ Respond(w, u, Error("unauthorized"))
                 /\ UNCHANGED <<users, total_karma>>
            ELSE /\ user' = [user EXCEPT ![w] = u]
                 /\ Goto(w, "select")
                 /\ UNCHANGED <<req, log>>
                 \* get_or_create(username='demo_user', defaults={total_karma: 100})
                 /\ IF u \in users
                    THEN UNCHANGED <<users, total_karma>>
                    ELSE /\ users' = users \cup {u}
                         /\ total_karma' = (u :> DEMO_TOTAL_KARMA) @@ total_karma
    /\ UNCHANGED <<posts, comments, likes_count, likes, karma, locks, tx,
                   nreq, overlapped>>

(* Mutant: except Post.DoesNotExist is missing *)
select_for_update_unhandled(w) ==
    IF DoesNotExist(req[w].target_type, req[w].pk)
    THEN Rollback(w, Error("server_error"))
    ELSE /\ ~LockedByOther(w, Table(req[w].target_type), req[w].pk)
         /\ locks' = locks \cup {<<w, Table(req[w].target_type), req[w].pk>>}
         /\ Goto(w, "check")
         /\ UNCHANGED <<db, req, user, tx, nreq, overlapped, log>>

(* Mutant: the row is read without select_for_update() *)
select_without_lock(w) ==
    IF DoesNotExist(req[w].target_type, req[w].pk)
    THEN Rollback(w, Error("not_found"))
    ELSE /\ Goto(w, "check")
         /\ UNCHANGED <<db, locks, req, user, tx, nreq, overlapped, log>>

(* with transaction.atomic(): post = Post.objects.select_for_update().get(pk=pk) *)
select_for_update(w) ==
    IF DoesNotExist(req[w].target_type, req[w].pk)
    THEN Rollback(w, Error("not_found"))
    ELSE /\ ~LockedByOther(w, Table(req[w].target_type), req[w].pk)
         /\ locks' = locks \cup {<<w, Table(req[w].target_type), req[w].pk>>}
         /\ Goto(w, "check")
         /\ UNCHANGED <<db, req, user, tx, nreq, overlapped, log>>

SelectForUpdate(w) ==
    /\ pc[w] = "select"
    /\ UNCHANGED aux
    /\ select_for_update(w)

----------------------------------------------------------------------------
(* PostViewSet.like / CommentViewSet.like, inside the atomic block *)

IsLike(w) == req[w].op = "like"

IsUnlike(w) == req[w].op = "unlike"

(* Mutant: a repeated like is answered as a success *)
LikeCheckAnswersSuccess(w) ==
    /\ pc[w] = "check"
    /\ UNCHANGED aux
    /\ IsLike(w)
    /\ IF LikeExists(w)
       THEN Commit(w, [result |-> "success", likes |-> likes_count[Target(w)],
                       karma_awarded |-> 0])
       ELSE /\ Goto(w, "create")
            /\ UNCHANGED <<db, locks, req, user, tx, nreq, overlapped, log>>

(* Mutant: the 400 is answered with the row lock of the target still held *)
LikeCheckKeepingLock(w) ==
    /\ pc[w] = "check"
    /\ UNCHANGED aux
    /\ IsLike(w)
    /\ IF LikeExists(w)
       THEN /\ Respond(w, user[w], Error("already_liked"))
            /\ UNCHANGED <<db, locks, tx, nreq, overlapped>>
       ELSE /\ Goto(w, "create")
            /\ UNCHANGED <<db, locks, req, user, tx, nreq, overlapped, log>>

(* Mutant: an author may not like what the author wrote *)
LikeCheckRefusingOwn(w) ==
    /\ pc[w] = "check"
    /\ UNCHANGED aux
    /\ IsLike(w)
    /\ IF LikeExists(w)
       THEN Commit(w, Error("already_liked"))
       ELSE IF user[w] = Author(req[w].target_type, req[w].pk)
       THEN Commit(w, Error("forbidden"))
       ELSE /\ Goto(w, "create")
            /\ UNCHANGED <<db, locks, req, user, tx, nreq, overlapped, log>>

(* if Like.objects.filter(...).exists(): return 400 'Already liked' *)
LikeCheck(w) ==
    /\ pc[w] = "check"
    /\ UNCHANGED aux
    /\ IsLike(w)
    /\ IF LikeExists(w)
       THEN Commit(w, Error("already_liked"))
       ELSE /\ Goto(w, "create")
            /\ UNCHANGED <<db, locks, req, user, tx, nreq, overlapped, log>>

(* Mutant: except IntegrityError is missing *)
LikeCreateUnhandled(w) ==
    /\ pc[w] = "create"
    /\ UNCHANGED aux
    /\ ~KeyBusy(w, Triple(w))
    /\ IF UniqueViolation(Triple(w))
       THEN Rollback(w, Error("server_error"))
       ELSE /\ tx' = [tx EXCEPT ![w].like = "insert"]
            /\ Goto(w, "count")
            /\ UNCHANGED <<db, locks, req, user, nreq, overlapped, log>>

(* Like.objects.create(user, target_type, target_id); IntegrityError -> 400 *)
LikeCreate(w) ==
    /\ pc[w] = "create"
    /\ UNCHANGED aux
    /\ ~KeyBusy(w, Triple(w))
    /\ IF UniqueViolation(Triple(w))
       THEN Rollback(w, Error("already_liked"))
       ELSE /\ tx' = [tx EXCEPT ![w].like = "insert"]
            /\ Goto(w, "count")
            /\ UNCHANGED <<db, locks, req, user, nreq, overlapped, log>>

(* Mutant: unlike adds 1, as like does *)
LikesCountDeltaAlwaysUp(op) == 1

(* F('likes_count') + 1 in like, F('likes_count') - 1 in unlike *)
LikesCountDelta(op) == IF op = "like" THEN 1 ELSE -1

(* The value UPDATE ... SET likes_count = F('likes_count') + delta writes *)
NewLikesCount(w) == likes_count[Target(w)] + tx[w].dcount + LikesCountDelta(req[w].op)

(* Post.objects.filter(pk=pk).update(likes_count=F('likes_count') + 1) *)
LikesCountIncrement(w) ==
    /\ pc[w] = "count"
    /\ UNCHANGED aux
    /\ IsLike(w)
    /\ ~LockedByOther(w, Table(req[w].target_type), req[w].pk)
    /\ locks' = locks \cup {<<w, Table(req[w].target_type), req[w].pk>>}
    /\ tx' = [tx EXCEPT ![w].dcount = @ + LikesCountDelta(req[w].op)]
    /\ Goto(w, "karma")
    /\ UNCHANGED <<db, req, user, nreq, overlapped, log>>

(* The row KarmaTransaction.objects.create(...) inserts *)
KarmaRow(w) ==
    [user |-> Author(req[w].target_type, req[w].pk),
     amount |-> KarmaAmount(req[w].target_type),
     reason |-> KarmaReason(req[w].target_type),
     source_id |-> req[w].pk,
     liker |-> user[w],
     created_at |-> now]

(* Mutant: the row is written outside the atomic block *)
KarmaCreateOutsideAtomic(w) ==
    /\ pc[w] = "karma"
    /\ UNCHANGED aux
    /\ karma' = Append(karma, KarmaRow(w))
    /\ Goto(w, "total")
    /\ UNCHANGED <<users, total_karma, posts, comments, likes_count, likes,
                   locks, req, user, tx, nreq, overlapped, log>>

(* Mutant: get_or_create on liker, reason and source instead of create *)
KarmaGetOrCreate(w) ==
    /\ pc[w] = "karma"
    /\ UNCHANGED aux
    /\ tx' = IF \E i \in DOMAIN karma :
                   /\ karma[i].liker = user[w]
                   /\ karma[i].source_id = req[w].pk
                   /\ karma[i].reason = KarmaReason(req[w].target_type)
             THEN tx
             ELSE [tx EXCEPT ![w].karma = Append(@, KarmaRow(w))]
    /\ Goto(w, "total")
    /\ UNCHANGED <<db, locks, req, user, nreq, overlapped, log>>

KarmaCreate(w) ==
    /\ pc[w] = "karma"
    /\ UNCHANGED aux
    /\ tx' = [tx EXCEPT ![w].karma = Append(@, KarmaRow(w))]
    /\ Goto(w, "total")
    /\ UNCHANGED <<db, locks, req, user, nreq, overlapped, log>>

(* Mutant: the update locks every row of table users *)
TotalKarmaIncrementLockingTable(w) ==
    /\ pc[w] = "total"
    /\ UNCHANGED aux
    /\ LET author == Author(req[w].target_type, req[w].pk) IN
         /\ \A l \in locks : l[2] = "users" => l[1] = w
         /\ locks' = locks \cup {<<w, "users", u>> : u \in users}
    /\ tx' = [tx EXCEPT ![w].dkarma = @ + KarmaAmount(req[w].target_type)]
    /\ Goto(w, "refresh")
    /\ UNCHANGED <<db, req, user, nreq, overlapped, log>>

(* Mutant: the comment view adds to the total what the post view adds *)
TotalKarmaIncrementOfPost(w) ==
    /\ pc[w] = "total"
    /\ UNCHANGED aux
    /\ LET author == Author(req[w].target_type, req[w].pk) IN
         /\ ~LockedByOther(w, "users", author)
         /\ locks' = locks \cup {<<w, "users", author>>}
    /\ tx' = [tx EXCEPT ![w].dkarma = @ + POST_LIKE_KARMA]
    /\ Goto(w, "refresh")
    /\ UNCHANGED <<db, req, user, nreq, overlapped, log>>

(* User.objects.filter(pk=post.author_id).update(total_karma=F('total_karma') + 5) *)
TotalKarmaIncrement(w) ==
    /\ pc[w] = "total"
    /\ UNCHANGED aux
    /\ LET author == Author(req[w].target_type, req[w].pk) IN
         /\ ~LockedByOther(w, "users", author)
         /\ locks' = locks \cup {<<w, "users", author>>}
    /\ tx' = [tx EXCEPT ![w].dkarma = @ + KarmaAmount(req[w].target_type)]
    /\ Goto(w, "refresh")
    /\ UNCHANGED <<db, req, user, nreq, overlapped, log>>

(* Mutant: without refresh_from_db(), the value loaded by select_for_update *)
LoadedLikesCount(w) == likes_count[Target(w)]

(* post.refresh_from_db(); post.likes_count as the transaction sees it *)
RefreshedLikesCount(w) == likes_count[Target(w)] + tx[w].dcount

(* return Response({'success': True, 'likes': ..., 'karma_awarded': 5}) *)
LikeRespond(w) ==
    /\ pc[w] = "refresh"
    /\ UNCHANGED aux
    /\ IsLike(w)
    /\ Commit(w, [result |-> "success", likes |-> RefreshedLikesCount(w),
                  karma_awarded |-> KarmaAmount(req[w].target_type)])

----------------------------------------------------------------------------
(* PostViewSet.unlike / CommentViewSet.unlike, inside the atomic block *)

(* like = Like.objects.filter(...).first(); if not like: return 400 'Like not found' *)
UnlikeFind(w) ==
    /\ pc[w] = "check"
    /\ UNCHANGED aux
    /\ IsUnlike(w)
    /\ IF ~LikeExists(w)
       THEN Commit(w, Error("like_not_found"))
       ELSE /\ Goto(w, "delete")
            /\ UNCHANGED <<db, locks, req, user, tx, nreq, overlapped, log>>

(* Mutant: the unlike appends a KarmaTransaction that reverses the award *)
UnlikeDeleteAppendingReversal(w) ==
    /\ pc[w] = "delete"
    /\ UNCHANGED aux
    /\ ~KeyBusy(w, Triple(w))
    /\ tx' = [tx EXCEPT ![w].like = IF likes[Triple(w)] > 0 THEN "delete" ELSE None,
                        ![w].karma = Append(@, [KarmaRow(w) EXCEPT !.amount = -@])]
    /\ Goto(w, "count")
    /\ UNCHANGED <<db, locks, req, user, nreq, overlapped, log>>

(* Mutant: the unlike takes the awarded karma back *)
UnlikeDeleteReversingKarma(w) ==
    /\ pc[w] = "delete"
    /\ UNCHANGED aux
    /\ ~KeyBusy(w, Triple(w))
    /\ tx' = [tx EXCEPT ![w].like = IF likes[Triple(w)] > 0 THEN "delete" ELSE None,
                        ![w].dkarma = @ - KarmaAmount(req[w].target_type)]
    /\ Goto(w, "count")
    /\ UNCHANGED <<db, locks, req, user, nreq, overlapped, log>>

(* like.delete() *)
UnlikeDelete(w) ==
    /\ pc[w] = "delete"
    /\ UNCHANGED aux
    /\ ~KeyBusy(w, Triple(w))
    /\ tx' = [tx EXCEPT ![w].like = IF likes[Triple(w)] > 0 THEN "delete" ELSE None]
    /\ Goto(w, "count")
    /\ UNCHANGED <<db, locks, req, user, nreq, overlapped, log>>

(* Post.objects.filter(pk=pk).update(likes_count=F('likes_count') - 1);   *)
(* an IntegrityError of the CHECK constraint is not caught by unlike      *)
LikesCountDecrement(w) ==
    /\ pc[w] = "count"
    /\ UNCHANGED aux
    /\ IsUnlike(w)
    /\ ~LockedByOther(w, Table(req[w].target_type), req[w].pk)
    /\ IF CheckViolation(NewLikesCount(w))
       THEN Rollback(w, Error("server_error"))
       ELSE /\ locks' = locks \cup {<<w, Table(req[w].target_type), req[w].pk>>}
            /\ tx' = [tx EXCEPT ![w].dcount = @ + LikesCountDelta(req[w].op)]
            /\ Goto(w, "refresh")
            /\ UNCHANGED <<db, req, user, nreq, overlapped, log>>

(* return Response({'success': True, 'likes': post.likes_count}) *)
UnlikeRespond(w) ==
    /\ pc[w] = "refresh"
    /\ UNCHANGED aux
    /\ IsUnlike(w)
    /\ Commit(w, [result |-> "success", likes |-> RefreshedLikesCount(w),
                  karma_awarded |-> 0])

----------------------------------------------------------------------------
Like(w) ==
    \/ LikeCheck(w)
    \/ LikeCreate(w)
    \/ LikesCountIncrement(w)
    \/ KarmaCreate(w)
    \/ TotalKarmaIncrement(w)
    \/ LikeRespond(w)

Unlike(w) ==
    \/ UnlikeFind(w)
    \/ UnlikeDelete(w)
    \/ LikesCountDecrement(w)
    \/ UnlikeRespond(w)

Next ==
    \/ \E w \in Workers, op \in Ops, caller \in Callers, tt \in TargetTypes, pk \in Pks :
          Request(w, op, caller, tt, pk)
    \/ \E w \in Workers : GetCurrentUser(w)
    \/ \E w \in Workers : SelectForUpdate(w)
    \/ \E w \in Workers : Like(w)
    \/ \E w \in Workers : Unlike(w)

Spec == Init /\ [][Next]_vars

----------------------------------------------------------------------------
(* The Like registry used directly, as the tests and the admin site do:  *)
(* Like.objects.create(user=u, target_type=tt, target_id=pk), autocommit. *)
(* A duplicate key raises IntegrityError.                                 *)
RegistryCreate(u, tt, pk) ==
    /\ nreq < MaxRequests
    /\ nreq' = nreq + 1
    /\ UNCHANGED aux
    /\ u \in users
    /\ ~KeyBusy(None, <<u, tt, pk>>)
    /\ LET entry(result) ==
             [op |-> "create", caller |-> u, user |-> u, target_type |-> tt,
              pk |-> pk, result |-> result, likes |-> 0, karma_awarded |-> 0]
       IN IF UniqueViolation(<<u, tt, pk>>)
          THEN /\ log' = Append(log, entry("IntegrityError"))
               /\ UNCHANGED likes
          ELSE /\ log' = Append(log, entry("created"))
               /\ likes' = [likes EXCEPT ![<<u, tt, pk>>] = @ + 1]
    /\ UNCHANGED <<users, total_karma, posts, comments, likes_count, karma,
                   locks, pc, req, user, tx, overlapped>>

NextRegistry ==
    \/ Next
    \/ \E c \in Callers, tt \in TargetTypes, pk \in Pks :
          RegistryCreate(get_current_user(c), tt, pk)

SpecRegistry == Init /\ [][NextRegistry]_vars

(* Likes of post 1 and comment 1 racing with direct inserts of the same Likes *)
NextInsertRace ==
    \/ \E w \in Workers, caller \in Callers, tt \in TargetTypes :
          Request(w, "like", caller, tt, 1)
    \/ \E w \in Workers : GetCurrentUser(w)
    \/ \E w \in Workers : SelectForUpdate(w)
    \/ \E w \in Workers : Like(w)
    \/ \E c \in Callers, tt \in TargetTypes :
          RegistryCreate(get_current_user(c), tt, 1)

SpecInsertRace == Init /\ [][NextInsertRace]_vars

----------------------------------------------------------------------------
(* Likes and unlikes of post 1 and comment 1, whose authors may be one *)
(* user or two                                                         *)
InitAuthors ==
    /\ users = RegisteredUsers
    /\ total_karma = [u \in RegisteredUsers |-> 0]
    /\ \E a \in RegisteredUsers : posts = (1 :> [author |-> a])
    /\ \E a \in RegisteredUsers :
         comments = (1 :> [author |-> a, post |-> 1, parent |-> NoParent,
                           content |-> <<"a">>])
    /\ likes_count = [t \in Targets |-> 0]
    /\ likes = [t \in Triples |-> 0]
    /\ karma = <<>>
    /\ locks = {}
    /\ pc = [w \in Workers |-> "idle"]
    /\ req = [w \in Workers |-> NoReq]
    /\ user = [w \in Workers |-> None]
    /\ tx = [w \in Workers |-> NoTx]
    /\ nreq = 0
    /\ overlapped = FALSE
    /\ log = <<>>
    /\ now = WINDOW_HOURS
    /\ flat = <<>>
    /\ objs = <<>>

(* What worker w does next *)
Step(w) ==
    \/ GetCurrentUser(w)
    \/ SelectForUpdate(w)
    \/ Like(w)
    \/ Unlike(w)

NextAuthors ==
    \/ \E w \in Workers, op \in Ops, caller \in Callers, tt \in TargetTypes :
          Request(w, op, caller, tt, 1)
    \/ \E w \in Workers : Step(w)

SpecAuthors == InitAuthors /\ [][NextAuthors]_vars

(* Likes only, by three actors *)
Likers == {"u1", "u2", Anonymous}

NextLikes ==
    \/ \E w \in Workers, caller \in Likers, tt \in TargetTypes :
          Request(w, "like", caller, tt, 1)
    \/ \E w \in Workers : GetCurrentUser(w)
    \/ \E w \in Workers : SelectForUpdate(w)
    \/ \E w \in Workers : Like(w)

SpecLikes == InitAuthors /\ [][NextLikes]_vars

(* Likes and unlikes by u1 of post 1 and comment 1, unlikes of a post     *)
(* that does not exist, and direct inserts of its Like of post 1 in      *)
(* between.  Every request that is being served keeps running: the       *)
(* server gives each worker its turn, and the store grants a lock that   *)
(* stays free.                                                           *)
NextFair ==
    \/ \E w \in Workers, op \in Ops, tt \in TargetTypes : Request(w, op, "u1", tt, 1)
    \/ \E w \in Workers : Request(w, "unlike", "u1", TARGET_POST, 2)
    \/ \E w \in Workers : Step(w)
    \/ RegistryCreate("u1", TARGET_POST, 1)

Fairness == \A w \in Workers : WF_vars(Step(w))

SpecFair == InitAuthors /\ [][NextFair]_vars /\ Fairness

----------------------------------------------------------------------------
(* LeaderboardView.get *)

(* Mutant: created_at__gt, the window start itself is left out *)
InWindowStrict(row, t) == row.created_at > t - WINDOW_HOURS

(* Mutant: the query has no filter on created_at *)
InWindowAlways(row, t) == TRUE

(* twenty_four_hours_ago = timezone.now() - timedelta(hours=24);  *)
(* filter(created_at__gte=twenty_four_hours_ago)                  *)
InWindow(row, t) == row.created_at >= t - WINDOW_HOURS

WindowRows(rows, t) == SelectSeq(rows, LAMBDA row : InWindow(row, t))

(* Sum('amount') *)
RECURSIVE SumAmount(_)
SumAmount(rows) ==
    IF rows = <<>> THEN 0 ELSE Head(rows).amount + SumAmount(Tail(rows))

(* .values('user_id'): one group per user_id that has a row *)
Groups(rows) == {rows[i].user : i \in DOMAIN rows}

(* .annotate(karma_24h=Coalesce(Sum('amount'), 0)) *)
Annotate(rows) ==
    {[user_id |-> u,
      karma_24h |-> SumAmount(SelectSeq(rows, LAMBDA row : row.user = u))] :
        u \in Groups(rows)}

(* Mutant: karma_24h__gte=0 *)
NotNegative(k) == k >= 0

(* .filter(karma_24h__gt=0) *)
Positive(k) == k > 0

(* Mutant: order_by('karma_24h') *)
RECURSIVE OrderByAscending(_)
OrderByAscending(S) ==
    IF S = {} THEN {<<>>}
    ELSE LET first == {r \in S : \A o \in S : r.karma_24h <= o.karma_24h}
         IN UNION {{<<r>> \o rest : rest \in OrderByAscending(S \ {r})} : r \in first}

(* .order_by('-karma_24h'): every order the store may answer with; the  *)
(* query names no second key, so equal sums come in any order           *)
RECURSIVE OrderByDescending(_)
OrderByDescending(S) ==
    IF S = {} THEN {<<>>}
    ELSE LET first == {r \in S : \A o \in S : o.karma_24h <= r.karma_24h}
         IN UNION {{<<r>> \o rest : rest \in OrderByDescending(S \ {r})} : r \in first}

(* [:5] *)
Slice(s, n) == SubSeq(s, 1, IF Len(s) < n THEN Len(s) ELSE n)

(* The rows leaderboard_data may hold when evaluated at time t *)
LeaderboardData(rows, t) ==
    LET kept == {r \in Annotate(WindowRows(rows, t)) : Positive(r.karma_24h)}
    IN {Slice(order, LEADERBOARD_LIMIT) : order \in OrderByDescending(kept)}

(* Mutant: the entry reports the cached total of the user *)
ResultFromTotalKarma(data, us, totals) ==
    LET entry(i) == [user |-> [username |-> data[i].user_id,
                               total_karma |-> totals[data[i].user_id]],
                     karma_24h |-> totals[data[i].user_id],
                     rank |-> i]
    IN SelectSeq([i \in DOMAIN data |-> entry(i)],
                 LAMBDA e : e.user.username \in us)

(* users = {u.id: u for u in User.objects.filter(id__in=user_ids)};     *)
(* for rank, entry in enumerate(leaderboard_data, 1): if user: append   *)
Result(data, us, totals) ==
    LET entry(i) == [user |-> [username |-> data[i].user_id,
                               total_karma |-> totals[data[i].user_id]],
                     karma_24h |-> data[i].karma_24h,
                     rank |-> i]
    IN SelectSeq([i \in DOMAIN data |-> entry(i)],
                 LAMBDA e : e.user.username \in us)

(* The responses GET /leaderboard/ may give on these tables at time t *)
LeaderboardResponses(rows, t, us, totals) ==
    {Result(data, us, totals) : data \in LeaderboardData(rows, t)}

(* Mutant: the leaderboard locks the rows of the users it lists *)
LeaderboardGetLocking ==
    /\ \A l \in locks : l[2] # "users"
    /\ nreq < MaxRequests
    /\ nreq' = nreq + 1
    /\ \E entries \in LeaderboardResponses(karma, now, users, total_karma) :
         log' = Append(log, [op |-> "leaderboard", result |-> "ok",
                             at |-> now, entries |-> entries, held |-> locks])
    /\ UNCHANGED <<db, locks, pc, req, user, tx, overlapped, aux>>

(* GET /leaderboard/: no authentication, no transaction, no lock *)
LeaderboardGet ==
    /\ nreq < MaxRequests
    /\ nreq' = nreq + 1
    /\ \E entries \in LeaderboardResponses(karma, now, users, total_karma) :
         log' = Append(log, [op |-> "leaderboard", result |-> "ok",
                             at |-> now, entries |-> entries, held |-> locks])
    /\ UNCHANGED <<db, locks, pc, req, user, tx, overlapped, aux>>

(* An hour passes *)
Tick ==
    /\ now < WINDOW_HOURS + MaxTicks
    /\ now' = now + 1
    /\ UNCHANGED <<db, locks, pc, req, user, tx, nreq, overlapped, log, flat, objs>>

(* The users and the karma log the leaderboard is asked about: more users *)
(* than the leaderboard has places; each has one of three histories, with *)
(* rows stamped at the start of the first window (hour 0) or at the       *)
(* first request (hour 24).  The i-th user was awarded Large(i) for posts *)
(* and i for comments, so that some sums are equal and most are not.      *)
BoardUsers == <<"u1", "u2", "u3", "u4", "u5", "u6">>

Histories == {"boundary", "reversed", "old"}

KarmaTransaction(u, amount, reason, t) ==
    [user |-> u, amount |-> amount, reason |-> reason,
     source_id |-> 1, liker |-> None, created_at |-> t]

Large(i) == POST_LIKE_KARMA * ((i + 1) \div 2)

Small(i) == COMMENT_LIKE_KARMA * i

History(i, h) ==
    LET u == BoardUsers[i]
        post(amount, t) == KarmaTransaction(u, amount, REASON_POST_LIKE, t)
        comment(amount, t) == KarmaTransaction(u, amount, REASON_COMMENT_LIKE, t)
    IN CASE h = "boundary" -> <<post(Large(i), 0), comment(Small(i), WINDOW_HOURS)>>
         [] h = "reversed" -> <<post(Large(i), WINDOW_HOURS), post(-Large(i), 0)>>
         [] h = "old"      -> <<comment(Small(i), 0)>>

RECURSIVE KarmaLog(_, _)
KarmaLog(h, i) ==
    IF i > Len(BoardUsers) THEN <<>>
    ELSE History(i, h[i]) \o KarmaLog(h, i + 1)

Range(s) == {s[i] : i \in DOMAIN s}

(* total_karma is a cache nobody keeps equal to the log (tests.py setUp) *)
Totals == [u \in Range(BoardUsers) |-> IF u = "u6" THEN DEMO_TOTAL_KARMA ELSE 0]

InitLeaderboard ==
    /\ users = Range(BoardUsers)
    /\ total_karma = Totals
    /\ posts = (1 :> [author |-> "u1"])
    /\ comments = <<>>
    /\ likes_count = [t \in Targets |-> 0]
    /\ likes = [t \in Triples |-> 0]
    /\ karma \in {KarmaLog(h, 1) : h \in [DOMAIN BoardUsers -> Histories]}
    /\ locks = {}
    /\ pc = [w \in Workers |-> "idle"]
    /\ req = [w \in Workers |-> NoReq]
    /\ user = [w \in Workers |-> None]
    /\ tx = [w \in Workers |-> NoTx]
    /\ nreq = 0
    /\ overlapped = FALSE
    /\ log = <<>>
    /\ now = WINDOW_HOURS
    /\ flat = <<>>
    /\ objs = <<>>

NextLeaderboard ==
    \/ LeaderboardGet
    \/ Tick

SpecLeaderboard == InitLeaderboard /\ [][NextLeaderboard]_vars

----------------------------------------------------------------------------
(* build_comment_tree(comments, user=None, user_liked_ids=None)           *)
(*                                                                         *)
(* The list comments is a sequence cs of [id, parent_id]; attrs holds the   *)
(* attributes the function sets on the Comment objects, per id.  The       *)
(* objects are referred to by id: a reply list is a sequence of ids.       *)

CommentIds(cs) == {cs[i].id : i \in DOMAIN cs}

(* if user_liked_ids is None: user_liked_ids = set()                  *)
(* (the optional argument is <<>> when it is None, else <<the set>>)  *)
LikedIds(user_liked_ids) == IF user_liked_ids = <<>> THEN {} ELSE user_liked_ids[1]

(* Mutant: the flag is only ever set, a flag of an earlier run is kept *)
FirstPassKeepingFlags(cs, attrs, user_liked_ids) ==
    [id \in CommentIds(cs) |->
        [prefetched_replies |-> <<>>,
         liked_by_user |-> \/ id \in LikedIds(user_liked_ids)
                           \/ (id \in DOMAIN attrs /\ attrs[id].liked_by_user)]]

(* Mutant: a reply list that is already there is kept *)
FirstPassKeepingReplies(cs, attrs, user_liked_ids) ==
    [id \in CommentIds(cs) |->
        [prefetched_replies |-> IF id \in DOMAIN attrs
                                THEN attrs[id].prefetched_replies ELSE <<>>,
         liked_by_user |-> id \in LikedIds(user_liked_ids)]]

(* for comment in comments: comment._prefetched_replies = [];           *)
(* comment._liked_by_user = comment.id in user_liked_ids;               *)
(* comment_map[comment.id] = comment                                    *)
FirstPass(cs, attrs, user_liked_ids) ==
    [id \in CommentIds(cs) |->
        [prefetched_replies |-> <<>>,
         liked_by_user |-> id \in LikedIds(user_liked_ids)]]

(* Mutant: a reply is put in front of the reply list of its parent *)
RECURSIVE SecondPassPrependingReplies(_, _, _, _)
SecondPassPrependingReplies(cs, i, root_comments, attrs) ==
    IF i > Len(cs)
    THEN [root_comments |-> root_comments, attrs |-> attrs]
    ELSE LET comment == cs[i] IN
         IF comment.parent_id = NoParent
         THEN SecondPassPrependingReplies(cs, i + 1,
                                          Append(root_comments, comment.id), attrs)
         ELSE IF comment.parent_id \in DOMAIN attrs
              THEN SecondPassPrependingReplies(cs, i + 1, root_comments,
                       [attrs EXCEPT ![comment.parent_id].prefetched_replies =
                                         <<comment.id>> \o @])
              ELSE SecondPassPrependingReplies(cs, i + 1, root_comments, attrs)

(* Mutant: a parentless comment is put in front of root_comments *)
RECURSIVE SecondPassPrepending(_, _, _, _)
SecondPassPrepending(cs, i, root_comments, attrs) ==
    IF i > Len(cs)
    THEN [root_comments |-> root_comments, attrs |-> attrs]
    ELSE LET comment == cs[i] IN
         IF comment.parent_id = NoParent
         THEN SecondPassPrepending(cs, i + 1, <<comment.id>> \o root_comments, attrs)
         ELSE IF comment.parent_id \in DOMAIN attrs
              THEN SecondPassPrepending(cs, i + 1, root_comments,
                       [attrs EXCEPT ![comment.parent_id].prefetched_replies =
                                         Append(@, comment.id)])
              ELSE SecondPassPrepending(cs, i + 1, root_comments, attrs)

(* for comment in comments: a parentless comment is appended to         *)
(* root_comments; another one is appended to the reply list of          *)
(* comment_map.get(comment.parent_id), if there is such a parent        *)
RECURSIVE SecondPass(_, _, _, _)
SecondPass(cs, i, root_comments, attrs) ==
    IF i > Len(cs)
    THEN [root_comments |-> root_comments, attrs |-> attrs]
    ELSE LET comment == cs[i] IN
         IF comment.parent_id = NoParent
         THEN SecondPass(cs, i + 1, Append(root_comments, comment.id), attrs)
         ELSE IF comment.parent_id \in DOMAIN attrs
              THEN SecondPass(cs, i + 1, root_comments,
                       [attrs EXCEPT ![comment.parent_id].prefetched_replies =
                                         Append(@, comment.id)])
              ELSE SecondPass(cs, i + 1, root_comments, attrs)

build_comment_tree(cs, attrs, user_liked_ids) ==
    SecondPass(cs, 1, <<>>, FirstPass(cs, attrs, user_liked_ids))

(* What a call leaves in the log: the returned list, the reply lists,  *)
(* the liked flags, and the row locks held by others when it returned  *)
TreeEntry(tree) ==
    [op |-> "build_comment_tree", result |-> "ok",
     roots |-> tree.root_comments,
     replies |-> [id \in DOMAIN tree.attrs |-> tree.attrs[id].prefetched_replies],
     liked |-> {id \in DOMAIN tree.attrs : tree.attrs[id].liked_by_user},
     held |-> locks]

(* The sets of liked ids a caller passes *)
LikedChoices == {<<>>, <<{1}>>}

(* tree = build_comment_tree(comments) on the objects in memory *)
BuildCommentTree ==
    /\ nreq < MaxRequests
    /\ nreq' = nreq + 1
    /\ \E user_liked_ids \in LikedChoices :
         LET tree == build_comment_tree(flat, objs, user_liked_ids) IN
           /\ objs' = tree.attrs
           /\ log' = Append(log, TreeEntry(tree))
    /\ UNCHANGED <<db, locks, pc, req, user, tx, overlapped, now, flat>>

(* The lists the function is given: up to MaxComments comments with    *)
(* distinct ids in any order, each parentless, or with a parent among  *)
(* the ids of the list, or with one that is not in the list            *)
IdOrders(n) == {ids \in [1..n -> 1..n] : \A i, j \in 1..n : ids[i] = ids[j] => i = j}

ParentIds(n) == {NoParent} \cup (1..(n + 1))

FlatLists ==
    UNION {{[i \in 1..n |-> [id |-> ids[i], parent_id |-> parents[i]]] :
               ids \in IdOrders(n), parents \in [1..n -> ParentIds(n)]} :
           n \in 0..MaxComments}

InitTree ==
    /\ users = RegisteredUsers
    /\ total_karma = [u \in RegisteredUsers |-> 0]
    /\ posts = (1 :> [author |-> "u1"])
    /\ comments = <<>>
    /\ likes_count = [t \in Targets |-> 0]
    /\ likes = [t \in Triples |-> 0]
    /\ karma = <<>>
    /\ locks = {}
    /\ pc = [w \in Workers |-> "idle"]
    /\ req = [w \in Workers |-> NoReq]
    /\ user = [w \in Workers |-> None]
    /\ tx = [w \in Workers |-> NoTx]
    /\ nreq = 0
    /\ overlapped = FALSE
    /\ log = <<>>
    /\ now = WINDOW_HOURS
    /\ flat \in FlatLists
    /\ objs = <<>>

NextTree == BuildCommentTree

SpecTree == InitTree /\ [][NextTree]_vars

----------------------------------------------------------------------------
(* Reads running while likes and unlikes are in progress *)

(* comments = list(Comment.objects.filter(post=post).order_by('created_at')): *)
(* one query; the rows come as fresh objects, in the order of creation        *)
RECURSIVE CommentsOfPost(_, _)
CommentsOfPost(post, pk) ==
    IF pk \notin DOMAIN comments THEN <<>>
    ELSE (IF comments[pk].post = post
          THEN <<[id |-> pk, parent_id |-> comments[pk].parent]>>
          ELSE <<>>) \o CommentsOfPost(post, pk + 1)

FetchComments(post) ==
    /\ flat' = CommentsOfPost(post, 1)
    /\ objs' = <<>>
    /\ UNCHANGED <<db, locks, pc, req, user, tx, nreq, overlapped, log, now>>

NextReads ==
    \/ \E w \in Workers, op \in Ops, tt \in TargetTypes : Request(w, op, "u1", tt, 1)
    \/ \E w \in Workers : GetCurrentUser(w)
    \/ \E w \in Workers : SelectForUpdate(w)
    \/ \E w \in Workers : Like(w)
    \/ \E w \in Workers : Unlike(w)
    \/ LeaderboardGet
    \/ \E post \in DOMAIN posts : FetchComments(post)
    \/ BuildCommentTree

SpecReads == Init /\ [][NextReads]_vars

(* Likes and unlikes by u1 of post 1 and comment 1, either of which may  *)
(* be by u1, while the leaderboard is read                               *)
NextSelfLike ==
    \/ \E w \in Workers, op \in Ops, tt \in TargetTypes : Request(w, op, "u1", tt, 1)
    \/ \E w \in Workers : Step(w)
    \/ LeaderboardGet

SpecSelfLike == InitAuthors /\ [][NextSelfLike]_vars

----------------------------------------------------------------------------
(* Creating comments: POST /posts/<pk>/comments/ and POST /comments/      *)
(*                                                                         *)
(* A text is a sequence of characters.                                     *)

(* str.strip() *)
RECURSIVE LStrip(_)
LStrip(text) ==
    IF text # <<>> /\ Head(text) = " " THEN LStrip(Tail(text)) ELSE text

RECURSIVE RStrip(_)
RStrip(text) ==
    IF text # <<>> /\ text[Len(text)] = " "
    THEN RStrip(SubSeq(text, 1, Len(text) - 1)) ELSE text

Strip(text) == RStrip(LStrip(text))

(* The fields of model Post *)
PostFields == {"id", "author", "content", "likes_count", "created_at", "updated_at"}

(* QuerySet.update(name=...) raises FieldDoesNotExist for a name that is *)
(* no field of the model                                                 *)
FieldDoesNotExist(fields, name) == name \notin fields

(* Comment.objects.create(...): the next primary key *)
NextCommentPk == Cardinality(DOMAIN comments) + 1

InsertComment(u, post, parent, content) ==
    comments' = comments @@
        (NextCommentPk :> [author |-> u, post |-> post, parent |-> parent,
                           content |-> content])

CommentEntry(endpoint, caller, post, content, parent_id, result, pk) ==
    [op |-> "create_comment", endpoint |-> endpoint, caller |-> caller,
     user |-> get_current_user(caller), post |-> post, content |-> content,
     parent |-> parent_id, result |-> result, comment |-> pk]

(* _get_current_user: get_or_create of the demo user *)
ResolveUser(caller) ==
    LET u == get_current_user(caller) IN
    IF u \in users
    THEN UNCHANGED <<users, total_karma>>
    ELSE /\ users' = users \cup {u}
         /\ total_karma' = (u :> DEMO_TOTAL_KARMA) @@ total_karma

(* PostViewSet.comments, request.method == 'POST' *)
CreateCommentOnPost(caller, pk, content, parent_id) ==
    /\ nreq < MaxRequests
    /\ nreq' = nreq + 1
    /\ LET answer(result, id) ==
               log' = Append(log, CommentEntry("posts", caller, pk, content,
                                               parent_id, result, id))
       IN IF pk \notin DOMAIN posts
          THEN /\ answer("not_found", 0)
               /\ UNCHANGED <<users, total_karma, comments>>
          ELSE /\ ResolveUser(caller)
               /\ IF Strip(content) = <<>>
                  THEN /\ answer("content_required", 0)
                       /\ UNCHANGED comments
                  ELSE IF /\ parent_id # NoParent
                          /\ ~(parent_id \in DOMAIN comments
                                 /\ comments[parent_id].post = pk)
                  THEN /\ answer("parent_not_found", 0)
                       /\ UNCHANGED comments
                  ELSE /\ InsertComment(get_current_user(caller), pk, parent_id,
                                        Strip(content))
                       \* Post.objects.filter(pk=pk).update(comments_count=...)
                       /\ IF FieldDoesNotExist(PostFields, "comments_count")
                          THEN answer("server_error", 0)
                          ELSE answer("created", NextCommentPk)
    /\ UNCHANGED <<posts, likes_count, likes, karma, locks, pc, req, user, tx,
                   overlapped, aux>>

(* Mutant: the serializer has no validate_parent *)
SerializerIsValidWithoutValidateParent(post, content, parent_id) ==
    /\ post \in DOMAIN posts
    /\ Strip(content) # <<>>
    /\ parent_id # NoParent => parent_id \in DOMAIN comments

(* CommentCreateSerializer(data=request.data).is_valid(): post and parent *)
(* name existing rows, content is not blank once trimmed, and             *)
(* validate_parent: the parent is a comment on the post named             *)
SerializerIsValid(post, content, parent_id) ==
    /\ post \in DOMAIN posts
    /\ Strip(content) # <<>>
    /\ parent_id # NoParent =>
          /\ parent_id \in DOMAIN comments
          /\ comments[parent_id].post = post

(* CommentViewSet.create *)
CommentCreate(caller, post, content, parent_id) ==
    /\ nreq < MaxRequests
    /\ nreq' = nreq + 1
    /\ ResolveUser(caller)
    /\ LET answer(result, id) ==
               log' = Append(log, CommentEntry("comments", caller, post, content,
                                               parent_id, result, id))
       IN IF SerializerIsValid(post, content, parent_id)
          THEN /\ InsertComment(get_current_user(caller), post, parent_id,
                                Strip(content))
               /\ answer("created", NextCommentPk)
          ELSE /\ answer("validation_error", 0)
               /\ UNCHANGED comments
    /\ UNCHANGED <<posts, likes_count, likes, karma, locks, pc, req, user, tx,
                   overlapped, aux>>

(* The requests: by u1, on post 1 or post 2, with a blank or a padded   *)
(* text, and no parent or comment 1 or 2 as parent (comment 1 is on     *)
(* post 1; comment 2 is the first one created)                          *)
Contents == {<<" ">>, <<" ", "a">>}

ParentChoices == {NoParent, 1, 2}

InitComments ==
    /\ users = RegisteredUsers
    /\ total_karma = [u \in RegisteredUsers |-> 0]
    /\ posts = (1 :> [author |-> "u1"]) @@ (2 :> [author |-> "u2"])
    /\ comments = (1 :> [author |-> "u2", post |-> 1, parent |-> NoParent,
                          content |-> <<"a">>])
    /\ likes_count = [t \in Targets |-> 0]
    /\ likes = [t \in Triples |-> 0]
    /\ karma = <<>>
    /\ locks = {}
    /\ pc = [w \in Workers |-> "idle"]
    /\ req = [w \in Workers |-> NoReq]
    /\ user = [w \in Workers |-> None]
    /\ tx = [w \in Workers |-> NoTx]
    /\ nreq = 0
    /\ overlapped = FALSE
    /\ log = <<>>
    /\ now = WINDOW_HOURS
    /\ flat = <<>>
    /\ objs = <<>>

NextComments ==
    \/ \E pk \in Pks, content \in Contents, parent_id \in ParentChoices :
          CreateCommentOnPost("u1", pk, content, parent_id)
    \/ \E post \in Pks, content \in Contents, parent_id \in ParentChoices :
          CommentCreate("u1", post, content, parent_id)

SpecComments == InitComments /\ [][NextComments]_vars

----------------------------------------------------------------------------
(* Creating posts: POST /posts/ *)

(* Mutant: a text of exactly max_length characters is refused *)
MaxLengthExceededFromLimit(value) == Len(value) >= POST_MAX_LENGTH

(* MaxLengthValidator(2000) of the field; len(value) > 2000 of validate_content *)
MaxLengthExceeded(value) == Len(value) > POST_MAX_LENGTH

Invalid(code) == [valid |-> FALSE, error |-> code, content |-> <<>>]

(* PostCreateSerializer.validate_content *)
validate_content(value) ==
    IF Len(Strip(value)) < 1 THEN Invalid("empty")
    ELSE IF MaxLengthExceeded(value) THEN Invalid("too_long")
    ELSE [valid |-> TRUE, error |-> "", content |-> Strip(value)]

(* PostCreateSerializer(data=request.data).is_valid(): the field content  *)
(* is a CharField made from TextField(max_length=2000); it refuses a text *)
(* that is blank once trimmed, trims the text, runs the max_length        *)
(* validator on the trimmed text, and then calls validate_content         *)
PostCreateSerializer(content) ==
    LET value == Strip(content) IN
    IF value = <<>> THEN Invalid("blank")
    ELSE IF MaxLengthExceeded(value) THEN Invalid("max_length")
    ELSE validate_content(value)

(* serializer.save(author=user): the next primary key *)
NextPostPk == Cardinality(DOMAIN posts) + 1

PostEntry(caller, content, result, error, pk) ==
    [op |-> "create_post", caller |-> caller, user |-> get_current_user(caller),
     content |-> content, result |-> result, error |-> error, post |-> pk]

(* PostViewSet.create *)
PostCreate(caller, content) ==
    /\ nreq < MaxPostRequests
    /\ nreq' = nreq + 1
    /\ ResolveUser(caller)
    /\ LET serializer == PostCreateSerializer(content) IN
         IF serializer.valid
         THEN /\ posts' = posts @@
                    (NextPostPk :> [author |-> get_current_user(caller),
                                    content |-> serializer.content])
              \* likes_count = models.PositiveIntegerField(default=0)
              /\ likes_count' = (<<TARGET_POST, NextPostPk>> :> 0) @@ likes_count
              /\ log' = Append(log, PostEntry(caller, content, "created", "",
                                              NextPostPk))
         ELSE /\ log' = Append(log, PostEntry(caller, content, "validation_error",
                                              serializer.error, 0))
              /\ UNCHANGED <<posts, likes_count>>
    /\ UNCHANGED <<comments, likes, karma, locks, pc, req, user, tx, overlapped, aux>>

(* The texts sent: blank, short with padding, of exactly 2000 characters, *)
(* of 2001, and of 2000 with a space before or after                      *)
Repeat(c, n) == [i \in 1..n |-> c]

PostContents ==
    {<<" ">>,
     <<" ", "a", " ">>,
     Repeat("a", POST_MAX_LENGTH),
     Repeat("a", POST_MAX_LENGTH + 1),
     <<" ">> \o Repeat("a", POST_MAX_LENGTH),
     Repeat("a", POST_MAX_LENGTH) \o <<" ">>}

NextPosts == \E caller \in Callers, content \in PostContents : PostCreate(caller, content)

SpecPosts == Init /\ [][NextPosts]_vars

----------------------------------------------------------------------------
(* Listing: GET /posts/ and GET /posts/<pk>/comments/ *)

(* get_user_liked_ids(user, target_type, target_ids): a User object, the *)
(* demo user included, is always authenticated                           *)
get_user_liked_ids(u, tt, target_ids) ==
    IF u = None THEN {}
    ELSE {id \in target_ids : likes[<<u, tt, id>>] > 0}

(* get_liked_by_current_user of PostSerializer and CommentSerializer:    *)
(* the attached flag if request.user is authenticated, else False        *)
get_liked_by_current_user(caller, liked_by_user) ==
    IF caller # Anonymous THEN liked_by_user ELSE FALSE

(* The flags serialized for the comments of one post *)
CommentFlags(caller, post, comment_liked_ids) ==
    LET post_comments == CommentsOfPost(post, 1)
        tree == build_comment_tree(post_comments, <<>>, <<comment_liked_ids>>)
    IN {id \in DOMAIN tree.attrs :
           get_liked_by_current_user(caller, tree.attrs[id].liked_by_user)}

(* PostViewSet.list *)
ListPosts(caller) ==
    /\ nreq < MaxRequests
    /\ nreq' = nreq + 1
    /\ ResolveUser(caller)
    /\ LET u == get_current_user(caller)
           post_ids == DOMAIN posts
           post_liked_ids == get_user_liked_ids(u, TARGET_POST, post_ids)
           comment_liked_ids ==
               get_user_liked_ids(u, TARGET_COMMENT, DOMAIN comments)
       IN log' = Append(log,
              [op |-> "list_posts", caller |-> caller, user |-> u, result |-> "ok",
               posts |-> post_ids,
               liked_posts |-> {id \in post_ids :
                   get_liked_by_current_user(caller, id \in post_liked_ids)},
               comments |-> {id \in DOMAIN comments : comments[id].post \in post_ids},
               liked_comments |-> UNION {CommentFlags(caller, post, comment_liked_ids) :
                                           post \in post_ids}])
    /\ UNCHANGED <<posts, comments, likes_count, likes, karma, locks, pc, req, user,
                   tx, overlapped, aux>>

(* PostViewSet.comments, request.method == 'GET' *)
ListComments(caller, pk) ==
    /\ nreq < MaxRequests
    /\ nreq' = nreq + 1
    /\ IF pk \notin DOMAIN posts
       THEN /\ log' = Append(log,
                   [op |-> "list_comments", caller |-> caller,
                    user |-> get_current_user(caller), result |-> "not_found",
                    post |-> pk, comments |-> {}, liked_comments |-> {}])
            /\ UNCHANGED <<users, total_karma>>
       ELSE /\ ResolveUser(caller)
            /\ LET u == get_current_user(caller)
                   comment_ids == {id \in DOMAIN comments : comments[id].post = pk}
                   comment_liked_ids ==
                       get_user_liked_ids(u, TARGET_COMMENT, comment_ids)
               IN log' = Append(log,
                      [op |-> "list_comments", caller |-> caller, user |-> u,
                       result |-> "ok", post |-> pk, comments |-> comment_ids,
                       liked_comments |-> CommentFlags(caller, pk, comment_liked_ids)])
    /\ UNCHANGED <<posts, comments, likes_count, likes, karma, locks, pc, req, user,
                   tx, overlapped, aux>>

(* Likes and unlikes of post 1 and comment 1, served one at a time, with *)
(* the lists read at any point                                           *)
NextLists ==
    \/ \E op \in Ops, caller \in Callers, tt \in TargetTypes :
          Request("w1", op, caller, tt, 1)
    \/ \E w \in Workers : GetCurrentUser(w)
    \/ \E w \in Workers : SelectForUpdate(w)
    \/ \E w \in Workers : Like(w)
    \/ \E w \in Workers : Unlike(w)
    \/ \E caller \in Callers : ListPosts(caller)
    \/ \E caller \in Callers, pk \in Pks : ListComments(caller, pk)

SpecLists == Init /\ [][NextLists]_vars

----------------------------------------------------------------------------
(* The feed as a whole: likes and unlikes of post 1 and comment 1 by u1   *)
(* and by anonymous callers, with comments and posts created in between  *)
NextFeed ==
    \/ \E w \in Workers, op \in Ops, caller \in Callers, tt \in TargetTypes :
          Request(w, op, caller, tt, 1)
    \/ \E w \in Workers : Step(w)
    \/ CreateCommentOnPost("u1", 1, <<" ", "a">>, NoParent)
    \/ CommentCreate("u1", 1, <<" ", "a">>, 1)
    \/ PostCreate("u1", <<" ", "a", " ">>)

SpecFeed == Init /\ [][NextFeed]_vars

----------------------------------------------------------------------------
(* Vocabulary of the properties *)

Idle == \A w \in Workers : pc[w] = "idle"

(* Every request received so far has been answered *)
AllAnswered == Idle /\ Len(log) = nreq

(* A step that sends a response; Answer is that response *)
Answers == Len(log') = Len(log) + 1

Answer == log'[Len(log')]

Exists(tt, pk) == ~DoesNotExist(tt, pk)

Succeeded(e, op) == e.op = op /\ e.result = "success"

(* The log holds only likes, all by one actor on one existing target *)
OnlyLikesOfOnePair ==
    /\ log # <<>>
    /\ Exists(log[1].target_type, log[1].pk)
    /\ \A i \in DOMAIN log :
         /\ log[i].op = "like"
         /\ log[i].user = log[1].user
         /\ log[i].target_type = log[1].target_type
         /\ log[i].pk = log[1].pk

ResultCount(result) == Cardinality({i \in DOMAIN log : log[i].result = result})

(* Number of rows of table likes whose target is t *)
LikeRows(t) ==
    LET n(u) == likes[<<u, t[1], t[2]>>]
    IN n("u1") + n("u2") + n(DemoUser)

LogCount(op, t) ==
    Cardinality({i \in DOMAIN log :
        Succeeded(log[i], op) /\ <<log[i].target_type, log[i].pk>> = t})

(* total_karma of every user that exists is left as it is *)
TotalKarmaKept == \A u \in DOMAIN total_karma : total_karma'[u] = total_karma[u]

----------------------------------------------------------------------------
(* C1: when N >= 2 like requests by one actor on one existing target run   *)
(* in any interleaving (the target not yet liked by that actor), exactly   *)
(* one returns success, the other N-1 return AlreadyLiked, and the         *)
(* target's likes_count ends exactly 1 higher than before (0 at the start) *)
C1_AtMostOnceLike ==
    (AllAnswered /\ Len(log) >= 2 /\ OnlyLikesOfOnePair) =>
        /\ ResultCount("success") = 1
        /\ ResultCount("already_liked") = Len(log) - 1
        /\ likes_count[<<log[1].target_type, log[1].pk>>] = 1

C1_Witness ==
    /\ AllAnswered /\ Len(log) = 2 /\ OnlyLikesOfOnePair
    /\ overlapped
    /\ ResultCount("success") = 1
    /\ ResultCount("already_liked") = 1

(* C2: in every committed state there is at most one Like row per triple   *)
(* (user, target_type, target_id), and an attempt to insert a second one   *)
(* fails with a constraint violation (IntegrityError) and inserts nothing  *)
AtMostOneLikePerTriple == \A t \in Triples : likes[t] <= 1

SecondInsertFails ==
    /\ \A t \in Triples : likes[t] >= 1 => likes'[t] <= likes[t]
    /\ (Answers /\ Answer.op = "create"
          /\ likes[<<Answer.user, Answer.target_type, Answer.pk>>] >= 1)
       => (Answer.result = "IntegrityError" /\ likes' = likes)

C2_UniqueLike == []AtMostOneLikePerTriple /\ [][SecondInsertFails]_vars

C2_Witness ==
    \E i \in DOMAIN log :
        /\ log[i].op = "create"
        /\ log[i].result = "IntegrityError"
        /\ likes[<<log[i].user, log[i].target_type, log[i].pk>>] = 1

(* C3: counter conservation: in every committed state each target's        *)
(* likes_count equals the number of Like rows of that target, which is the *)
(* number of successful likes minus the number of successful unlikes of    *)
(* it, and likes_count is never negative                                   *)
C3_CounterConservation ==
    \A t \in Targets :
        /\ likes_count[t] = LikeRows(t)
        /\ likes_count[t] = LogCount("like", t) - LogCount("unlike", t)
        /\ likes_count[t] >= 0

C3_Witness ==
    \E t \in Targets :
        /\ likes_count[t] = 1
        /\ LogCount("like", t) = 2
        /\ LogCount("unlike", t) = 1

(* C4: a successful like appends exactly one KarmaTransaction: recipient   *)
(* the target's author, amount +5 and reason post_like for a post, +1 and  *)
(* comment_like for a comment, source_id the target's id, liker the        *)
(* acting actor, stamped with the current time; and it adds that amount    *)
(* to the author's total_karma                                             *)
LikeAwardsKarma ==
    (Answers /\ Succeeded(Answer, "like")) =>
        LET isPost == Answer.target_type = "post"
            author == IF isPost THEN posts[Answer.pk].author
                      ELSE comments[Answer.pk].author
            amount == IF isPost THEN 5 ELSE 1
        IN /\ karma' = Append(karma,
                  [user |-> author, amount |-> amount,
                   reason |-> IF isPost THEN "post_like" ELSE "comment_like",
                   source_id |-> Answer.pk, liker |-> Answer.user,
                   created_at |-> now])
           /\ total_karma' = [total_karma EXCEPT ![author] = @ + amount]

C4_LikeAwardsKarma == [][LikeAwardsKarma]_vars

C4_Witness ==
    /\ \E i \in DOMAIN log : Succeeded(log[i], "like") /\ log[i].target_type = "post"
    /\ \E i \in DOMAIN log : Succeeded(log[i], "like") /\ log[i].target_type = "comment"
    /\ Len(karma) = 2
    /\ total_karma["u1"] = 5
    /\ total_karma["u2"] = 1

(* C5: like and unlike are all-or-nothing: every step of the system leaves *)
(* the committed Likes, likes_count, KarmaTransactions and total_karma all *)
(* unchanged, or is the commit of a successful like that applies its four  *)
(* effects together, or the commit of a successful unlike that applies its *)
(* two effects together; a failed unit leaves none of its writes behind    *)
NoEffect ==
    /\ likes' = likes
    /\ likes_count' = likes_count
    /\ karma' = karma
    /\ TotalKarmaKept

LikeEffects(e) ==
    /\ likes' = [likes EXCEPT ![<<e.user, e.target_type, e.pk>>] = @ + 1]
    /\ likes_count' = [likes_count EXCEPT ![<<e.target_type, e.pk>>] = @ + 1]
    /\ Len(karma') = Len(karma) + 1
    /\ \E u \in DOMAIN total_karma :
         /\ total_karma'[u] > total_karma[u]
         /\ \A o \in DOMAIN total_karma \ {u} : total_karma'[o] = total_karma[o]

UnlikeEffects(e) ==
    /\ likes' = [likes EXCEPT ![<<e.user, e.target_type, e.pk>>] = @ - 1]
    /\ likes_count' = [likes_count EXCEPT ![<<e.target_type, e.pk>>] = @ - 1]
    /\ karma' = karma
    /\ TotalKarmaKept

(* A direct Like.objects.create is no like operation *)
DirectCreate == Answers /\ Answer.op = "create"

AllOrNothing ==
    \/ DirectCreate
    \/ NoEffect /\ ~(Answers /\ Answer.result = "success")
    \/ Answers /\ Succeeded(Answer, "like") /\ LikeEffects(Answer)
    \/ Answers /\ Succeeded(Answer, "unlike") /\ UnlikeEffects(Answer)

C5_AllOrNothing == [][AllOrNothing]_vars

(* An unlike that failed after its delete (likes_count would go negative), *)
(* and the Like it had deleted is still there                              *)
C5_Witness ==
    \E i \in DOMAIN log :
        /\ log[i].op = "unlike"
        /\ log[i].result = "server_error"
        /\ likes[<<log[i].user, log[i].target_type, log[i].pk>>] = 1

(* C6: unlike does not reverse karma: no step of an unlike request, up to  *)
(* and including its successful response, changes the KarmaTransaction log *)
(* or any actor's total_karma                                              *)
UnlikeKeepsKarma ==
    \A w \in Workers :
        (IsUnlike(w) /\ pc'[w] # pc[w]) => (karma' = karma /\ TotalKarmaKept)

C6_UnlikeKeepsKarma == [][UnlikeKeepsKarma]_vars

(* like then unlike by one actor on post 1: the author still has the 5 *)
C6_Witness ==
    /\ Len(log) = 2
    /\ Succeeded(log[1], "like") /\ Succeeded(log[2], "unlike")
    /\ log[1].user = log[2].user
    /\ log[1].target_type = "post" /\ log[2].target_type = "post"
    /\ likes_count[<<"post", 1>>] = 0
    /\ Len(karma) = 1 /\ karma[1].amount = 5
    /\ total_karma["u1"] = 5

(* C7: like called k >= 1 times in sequence by one actor on one existing   *)
(* target (not liked before, no unlike in between) yields one success      *)
(* followed by k-1 AlreadyLiked, and the Like rows, the target's           *)
(* likes_count, the KarmaTransaction log and the author's total_karma stay *)
(* what the first call made them                                           *)
C7_LikeIdempotent ==
    (AllAnswered /\ ~overlapped /\ OnlyLikesOfOnePair) =>
        LET e == log[1]
            isPost == e.target_type = "post"
            author == IF isPost THEN posts[e.pk].author ELSE comments[e.pk].author
            amount == IF isPost THEN 5 ELSE 1
        IN /\ e.result = "success"
           /\ \A i \in 2..Len(log) : log[i].result = "already_liked"
           /\ likes = [t \in Triples |->
                          IF t = <<e.user, e.target_type, e.pk>> THEN 1 ELSE 0]
           /\ likes_count = [t \in Targets |->
                          IF t = <<e.target_type, e.pk>> THEN 1 ELSE 0]
           /\ Len(karma) = 1
           /\ karma[1].liker = e.user /\ karma[1].amount = amount
           /\ \A u \in RegisteredUsers :
                 total_karma[u] = IF u = author THEN amount ELSE 0

C7_Witness ==
    /\ AllAnswered /\ ~overlapped /\ OnlyLikesOfOnePair
    /\ Len(log) = 3
    /\ log[3].result = "already_liked"

(* C8: a like or unlike sent without credentials returns Unauthorized and  *)
(* changes no state (as the code runs, the request is served as demo_user) *)
C8_AnonymousUnauthorized ==
    /\ \A i \in DOMAIN log :
         log[i].caller = Anonymous => log[i].result = "unauthorized"
    /\ (AllAnswered /\ \A i \in DOMAIN log : log[i].caller = Anonymous) =>
         /\ users = RegisteredUsers
         /\ karma = <<>>
         /\ \A t \in Triples : likes[t] = 0
         /\ \A t \in Targets : likes_count[t] = 0

(* C9: a like or unlike whose target id does not exist returns NotFound,   *)
(* and no step of it changes the Likes, any likes_count, the               *)
(* KarmaTransaction log or any actor's total_karma                         *)
MissingTargetNotFound ==
    \A w \in Workers :
        (InFlight(w) /\ DoesNotExist(req[w].target_type, req[w].pk) /\ pc'[w] # pc[w])
        => /\ NoEffect
           /\ pc'[w] = "idle" => (Answers /\ Answer.result = "not_found")

C9_MissingTargetNotFound == [][MissingTargetNotFound]_vars

C9_Witness ==
    /\ \E i \in DOMAIN log :
         /\ log[i].op = "like" /\ log[i].target_type = "post"
         /\ log[i].result = "not_found"
    /\ \E i \in DOMAIN log :
         /\ log[i].op = "unlike" /\ log[i].target_type = "comment"
         /\ log[i].result = "not_found"

(* C10: the response of an unlike on an existing target is success exactly *)
(* when a Like of (actor, target) exists; it then deletes exactly that     *)
(* Like and lowers the target's likes_count by exactly 1 (the value it     *)
(* returns); otherwise it is the like-not-found error and nothing changes  *)
UnlikeNeedsLike ==
    (Answers /\ Answer.op = "unlike" /\ Exists(Answer.target_type, Answer.pk)) =>
        LET triple == <<Answer.user, Answer.target_type, Answer.pk>>
            target == <<Answer.target_type, Answer.pk>>
        IN IF likes[triple] > 0
           THEN /\ Answer.result = "success"
                /\ likes' = [likes EXCEPT ![triple] = @ - 1]
                /\ likes_count' = [likes_count EXCEPT ![target] = @ - 1]
                /\ Answer.likes = likes_count[target] - 1
           ELSE /\ Answer.result = "like_not_found"
                /\ NoEffect

C10_UnlikeNeedsLike == [][UnlikeNeedsLike]_vars

C10_Witness ==
    /\ \E i \in DOMAIN log : Succeeded(log[i], "unlike")
    /\ \E i \in DOMAIN log : log[i].result = "like_not_found"

----------------------------------------------------------------------------
(* Vocabulary of the leaderboard properties *)

LeaderboardAnswered == Answers /\ Answer.op = "leaderboard"

Listed(entries) == {entries[i].user.username : i \in DOMAIN entries}

(* Sum of the amounts of the rows of karma with these indices *)
RECURSIVE SumOfRows(_)
SumOfRows(I) ==
    IF I = {} THEN 0
    ELSE LET i == CHOOSE i \in I : TRUE
         IN karma[i].amount + SumOfRows(I \ {i})

(* Rows awarded to u no earlier than 24 hours before t *)
RowsSince(u, t) ==
    {i \in DOMAIN karma : karma[i].user = u /\ karma[i].created_at >= t - 24}

WindowedKarma(u, t) == SumOfRows(RowsSince(u, t))

(* C11: for every actor the leaderboard lists, the karma value equals the  *)
(* sum of the amounts of exactly those KarmaTransactions of that recipient *)
(* whose timestamp is >= now - 24 hours; a transaction stamped exactly at  *)
(* the window start is counted                                             *)
SumsTheWindow ==
    LeaderboardAnswered =>
        \A i \in DOMAIN Answer.entries :
            Answer.entries[i].karma_24h =
                WindowedKarma(Answer.entries[i].user.username, now)

C11_SumsTheWindow == [][SumsTheWindow]_vars

(* A listed actor whose sum takes in a row stamped exactly at the window start *)
C11_Witness ==
    \E j \in DOMAIN log :
        /\ log[j].op = "leaderboard"
        /\ \E i \in DOMAIN log[j].entries, r \in DOMAIN karma :
             /\ karma[r].user = log[j].entries[i].user.username
             /\ karma[r].created_at = log[j].at - 24
             /\ karma[r].amount > 0
             /\ log[j].entries[i].karma_24h > karma[r].amount

(* C12 as stated: only transactions of age strictly less than 24 hours are *)
(* summed, none aged 24 hours or more contributes                          *)
C12_OnlyYoungerThan24h ==
    \A j \in DOMAIN log :
        log[j].op = "leaderboard" =>
            \A i \in DOMAIN log[j].entries :
                log[j].entries[i].karma_24h =
                    SumOfRows({r \in DOMAIN karma :
                        /\ karma[r].user = log[j].entries[i].user.username
                        /\ log[j].at - karma[r].created_at < 24})

(* Rows awarded to u more than 24 hours before t *)
RowsOlderThan24h(u, t) ==
    {i \in DOMAIN karma : karma[i].user = u /\ t - karma[i].created_at > 24}

RowsOf(u) == {i \in DOMAIN karma : karma[i].user = u}

(* C12, amended: no transaction aged more than 24 hours contributes: a     *)
(* listed actor's karma is all it was ever awarded less all it was awarded *)
(* more than 24 hours ago (a row aged exactly 24 hours is still counted)   *)
IgnoresOlderThan24h ==
    LeaderboardAnswered =>
        \A i \in DOMAIN Answer.entries :
            LET u == Answer.entries[i].user.username
            IN Answer.entries[i].karma_24h =
                   SumOfRows(RowsOf(u)) - SumOfRows(RowsOlderThan24h(u, now))

C12_IgnoresOlderThan24h == [][IgnoresOlderThan24h]_vars

(* A listed actor who has a positive row aged more than 24 hours *)
C12_Witness ==
    \E j \in DOMAIN log :
        /\ log[j].op = "leaderboard"
        /\ \E i \in DOMAIN log[j].entries, r \in DOMAIN karma :
             /\ karma[r].user = log[j].entries[i].user.username
             /\ log[j].at - karma[r].created_at > 24
             /\ karma[r].amount > 0

(* C13: the leaderboard never lists an actor whose windowed sum is <= 0,   *)
(* never has more than 5 entries even when more than 5 actors have         *)
(* positive windowed karma, and lists every actor with positive windowed   *)
(* karma when there are at most 5 of them                                  *)
PositiveActors(t) == {u \in users : WindowedKarma(u, t) > 0}

PositiveAndCapped ==
    LeaderboardAnswered =>
        /\ Len(Answer.entries) <= 5
        /\ Listed(Answer.entries) \subseteq PositiveActors(now)
        /\ Cardinality(PositiveActors(now)) <= 5 =>
               PositiveActors(now) \subseteq Listed(Answer.entries)

C13_PositiveAndCapped == [][PositiveAndCapped]_vars

(* Six actors with positive karma and five listed; later fewer than five, *)
(* with an actor whose sum is not positive                                *)
C13_Witness ==
    \E j, k \in DOMAIN log :
        /\ log[j].op = "leaderboard"
        /\ log[k].op = "leaderboard"
        /\ Cardinality(PositiveActors(log[j].at)) = 6
        /\ Len(log[j].entries) = 5
        /\ Cardinality(PositiveActors(log[k].at)) < 5
        /\ \E u \in users : RowsSince(u, log[k].at) # {} /\ WindowedKarma(u, log[k].at) <= 0
        /\ Len(log[k].entries) = Cardinality(PositiveActors(log[k].at))

(* C14: entries are in descending order of windowed karma, no actor left   *)
(* out has strictly more karma than a listed one, and the i-th entry has   *)
(* rank i                                                                  *)
OrderedAndRanked ==
    LeaderboardAnswered =>
        LET e == Answer.entries IN
        /\ \A i, j \in DOMAIN e : i < j => e[i].karma_24h >= e[j].karma_24h
        /\ \A i \in DOMAIN e : \A u \in users \ Listed(e) :
               WindowedKarma(u, now) <= e[i].karma_24h
        /\ \A i \in DOMAIN e : e[i].rank = i

C14_OrderedAndRanked == [][OrderedAndRanked]_vars

(* Five entries of which the first and the last differ, a positive actor   *)
(* left out                                                                *)
C14_Witness ==
    \E j \in DOMAIN log :
        /\ log[j].op = "leaderboard"
        /\ Len(log[j].entries) = 5
        /\ log[j].entries[1].karma_24h > log[j].entries[5].karma_24h
        /\ log[j].entries[5].rank = 5
        /\ PositiveActors(log[j].at) \ Listed(log[j].entries) # {}

(* C15: membership, order, karma values and ranks of the leaderboard do    *)
(* not depend on total_karma: the response given is, in these four         *)
(* respects, one that the same log and clock give under any other          *)
(* total_karma values                                                      *)
Ranking(entries) ==
    [i \in DOMAIN entries |->
        <<entries[i].user.username, entries[i].karma_24h, entries[i].rank>>]

OtherTotals ==
    {[u \in users |-> 0],
     [u \in users |-> IF u = "u1" THEN DEMO_TOTAL_KARMA ELSE 0]}

IgnoresTotalKarma ==
    LeaderboardAnswered =>
        \A totals \in OtherTotals :
            Ranking(Answer.entries) \in
                {Ranking(r) : r \in LeaderboardResponses(karma, now, users, totals)}

C15_IgnoresTotalKarma == [][IgnoresTotalKarma]_vars

(* The actor with the largest total_karma is listed, and not first *)
C15_Witness ==
    \E j \in DOMAIN log :
        /\ log[j].op = "leaderboard"
        /\ \E i \in DOMAIN log[j].entries :
             /\ i > 1
             /\ log[j].entries[i].user.total_karma > log[j].entries[1].user.total_karma

----------------------------------------------------------------------------
(* Vocabulary of the comment tree properties *)

TreeBuilt(e) == e.op = "build_comment_tree"

(* How often x occurs in the sequence s *)
Count(s, x) == Cardinality({i \in DOMAIN s : s[i] = x})

ParentOf(id) == (CHOOSE i \in DOMAIN flat : flat[i].id = id)

EveryParentPresent ==
    \A i \in DOMAIN flat :
        flat[i].parent_id # NoParent => flat[i].parent_id \in CommentIds(flat)

(* The ids of the parentless comments of flat, in the order of flat *)
Parentless ==
    LET roots == SelectSeq(flat, LAMBDA c : c.parent_id = NoParent)
    IN [i \in DOMAIN roots |-> roots[i].id]

(* The comments visited when the returned tree e is walked from its roots, *)
(* each reply list in turn; the walk ends after Len(flat) levels           *)
RECURSIVE Walk(_, _, _)
Walk(e, ids, levels) ==
    IF ids = <<>> \/ levels = 0 THEN <<>>
    ELSE <<Head(ids)>> \o Walk(e, e.replies[Head(ids)], levels - 1)
                       \o Walk(e, Tail(ids), levels)

Reached(e) == Walk(e, e.roots, Len(flat) + 1)

(* Roots are the parentless comments in input order; every other comment   *)
(* is in the reply list of its direct parent, once, and in no other list   *)
RootsAndReplies(e) ==
    /\ e.roots = Parentless
    /\ \A i \in DOMAIN flat :
         flat[i].parent_id # NoParent =>
             \A id \in DOMAIN e.replies :
                 Count(e.replies[id], flat[i].id) =
                     (IF id = flat[i].parent_id THEN 1 ELSE 0)
    /\ \A i \in DOMAIN flat :
         flat[i].parent_id = NoParent =>
             \A id \in DOMAIN e.replies : Count(e.replies[id], flat[i].id) = 0

(* C16 as stated: when every non-null parent is present, the roots are the *)
(* parentless comments in input order, every other comment is in exactly   *)
(* the reply list of its direct parent, and so every input comment is      *)
(* reached from the roots exactly once                                     *)
C16_TreeReachesAll ==
    \A j \in DOMAIN log :
        (TreeBuilt(log[j]) /\ EveryParentPresent) =>
            /\ RootsAndReplies(log[j])
            /\ \A i \in DOMAIN flat : Count(Reached(log[j]), flat[i].id) = 1

(* The chain of parents of the comment ends at a parentless comment *)
RECURSIVE ChainEndsAtRoot(_, _)
ChainEndsAtRoot(id, levels) ==
    /\ levels > 0
    /\ id \in CommentIds(flat)
    /\ LET parent_id == flat[ParentOf(id)].parent_id
       IN parent_id = NoParent \/ ChainEndsAtRoot(parent_id, levels - 1)

(* C16, amended: when every non-null parent is present, the roots are the  *)
(* parentless comments in input order and every other comment is in        *)
(* exactly the reply list of its direct parent; a comment is reached from  *)
(* the roots exactly once if its chain of parents ends at a parentless     *)
(* comment (always so when no comment is its own ancestor), and not at all *)
(* otherwise                                                               *)
C16_TreeCorrect ==
    \A j \in DOMAIN log :
        (TreeBuilt(log[j]) /\ EveryParentPresent) =>
            /\ RootsAndReplies(log[j])
            /\ \A i \in DOMAIN flat :
                 Count(Reached(log[j]), flat[i].id) =
                     (IF ChainEndsAtRoot(flat[i].id, Len(flat)) THEN 1 ELSE 0)

(* Three comments, every parent present: a root, a reply to it and a      *)
(* reply to the reply, given in another order than they were created in   *)
C16_Witness ==
    /\ \E j \in DOMAIN log : TreeBuilt(log[j]) /\ Len(Reached(log[j])) = 3
    /\ EveryParentPresent
    /\ Len(flat) = 3
    /\ \E i \in DOMAIN flat : flat[i].parent_id = NoParent
    /\ \E i, k \in DOMAIN flat :
         /\ flat[i].parent_id = flat[k].id
         /\ flat[k].parent_id # NoParent
         /\ i < k

(* C17 as stated: a comment whose parent id is not among the input         *)
(* comments is in the returned root list                                   *)
C17_OrphanBecomesRoot ==
    \A j \in DOMAIN log :
        TreeBuilt(log[j]) =>
            \A i \in DOMAIN flat :
                (flat[i].parent_id # NoParent /\ flat[i].parent_id \notin CommentIds(flat))
                    => Count(log[j].roots, flat[i].id) = 1

(* C18: a second run of build_comment_tree on the same objects in the same *)
(* order returns the same roots and leaves the same reply lists, in the    *)
(* same order, as the first; no reply is attached twice                    *)
C18_IdempotentRebuild ==
    \A j, k \in DOMAIN log :
        (TreeBuilt(log[j]) /\ TreeBuilt(log[k])) =>
            /\ log[j].roots = log[k].roots
            /\ log[j].replies = log[k].replies

(* Two runs on a list in which a comment has two replies *)
C18_Witness ==
    /\ Len(log) >= 2
    /\ TreeBuilt(log[1])
    /\ TreeBuilt(log[2])
    /\ \E id \in DOMAIN log[2].replies : Len(log[2].replies[id]) = 2

----------------------------------------------------------------------------
(* C19: building a comment tree and aggregating the leaderboard are        *)
(* read-only and lock-free: the step that answers either leaves Likes,     *)
(* likes_count, KarmaTransactions, total_karma and every other table, the  *)
(* row locks and the open transactions as they are; the tree it returns    *)
(* is determined by the objects in memory alone; and both can be served    *)
(* in every state, whatever locks the likes and unlikes in progress hold   *)
ReadAnswered == Answers /\ Answer.op \in {"leaderboard", "build_comment_tree"}

ReadOnly ==
    ReadAnswered =>
        /\ UNCHANGED <<db, locks, tx, pc, req, user>>
        /\ Answer.op = "build_comment_tree" =>
               \E user_liked_ids \in LikedChoices :
                   Answer = TreeEntry(build_comment_tree(flat, objs, user_liked_ids))

NeverWaits ==
    nreq < MaxRequests => (ENABLED LeaderboardGet) /\ (ENABLED BuildCommentTree)

----------------------------------------------------------------------------
(* C20 as stated: createComment with a resolved actor, an existing post,   *)
(* a content that is not empty and no parent or a parent that is a comment *)
(* on the same post succeeds through either endpoint: exactly one comment  *)
(* is created, on that post, with that parent, and it is returned          *)
CommentAnswered == Answers /\ Answer.op = "create_comment"

ValidComment(e) ==
    /\ e.post \in DOMAIN posts
    /\ \E i \in DOMAIN e.content : e.content[i] # " "
    /\ \/ e.parent = NoParent
       \/ e.parent \in DOMAIN comments /\ comments[e.parent].post = e.post

CreatesAndReturns(e) ==
    /\ e.result = "created"
    /\ e.comment \notin DOMAIN comments
    /\ DOMAIN comments' = DOMAIN comments \cup {e.comment}
    /\ \A pk \in DOMAIN comments : comments'[pk] = comments[pk]
    /\ comments'[e.comment].post = e.post
    /\ comments'[e.comment].parent = e.parent
    /\ comments'[e.comment].author = e.user

C20_CreateCommentSucceeds ==
    [][(CommentAnswered /\ ValidComment(Answer)) => CreatesAndReturns(Answer)]_vars

----------------------------------------------------------------------------
(* C21: createComment on an existing post with a parent id that names no   *)
(* comment, or a comment on a different post, is rejected with a           *)
(* validation error (status 400) and creates no comment; consequently      *)
(* every comment's parent, when set, is a comment on the same post         *)
BadParent(e) ==
    /\ e.post \in DOMAIN posts
    /\ e.parent # NoParent
    /\ ~(e.parent \in DOMAIN comments /\ comments[e.parent].post = e.post)

Rejected(e) ==
    e.result \in {"validation_error", "parent_not_found", "content_required"}

BadParentRejected ==
    (CommentAnswered /\ BadParent(Answer)) =>
        (Rejected(Answer) /\ comments' = comments)

ParentsOnSamePost ==
    \A pk \in DOMAIN comments :
        comments[pk].parent # NoParent =>
            /\ comments[pk].parent \in DOMAIN comments
            /\ comments[comments[pk].parent].post = comments[pk].post

C21_ParentOnSamePost == []ParentsOnSamePost /\ [][BadParentRejected]_vars

(* Both endpoints have refused a parent on the other post and a parent     *)
(* that does not exist, and a reply to comment 1 has been created          *)
C21_Witness ==
    /\ \E i \in DOMAIN log :
         /\ log[i].op = "create_comment" /\ log[i].endpoint = "comments"
         /\ log[i].post = 2 /\ log[i].parent = 1
         /\ log[i].content = <<" ", "a">>
         /\ log[i].result = "validation_error"
    /\ \E i \in DOMAIN log :
         /\ log[i].op = "create_comment" /\ log[i].endpoint = "posts"
         /\ log[i].parent = 2 /\ log[i].content = <<" ", "a">>
         /\ log[i].result = "parent_not_found"
    /\ \E pk \in DOMAIN comments : comments[pk].parent = 1
    /\ Cardinality(DOMAIN comments) = 2

----------------------------------------------------------------------------
(* C22 as stated: createPost rejects a content that is empty after         *)
(* trimming and a content longer than 2000 characters with a validation    *)
(* error and creates no post                                               *)
PostAnswered == Answers /\ Answer.op = "create_post"

NoPostCreated == posts' = posts /\ likes_count' = likes_count

RejectsPost(e) == e.result = "validation_error" /\ NoPostCreated

Trimmed(text) ==
    LET lead == Cardinality({i \in DOMAIN text : \A j \in 1..i : text[j] = " "})
        trail == Cardinality({i \in DOMAIN text :
                                 \A j \in i..Len(text) : text[j] = " "})
    IN IF lead = Len(text) THEN <<>>
       ELSE SubSeq(text, lead + 1, Len(text) - trail)

C22_RejectsLongContent ==
    [][(PostAnswered /\ (Trimmed(Answer.content) = <<>> \/ Len(Answer.content) > 2000))
         => RejectsPost(Answer)]_vars

(* C22, amended: the length that counts is that of the trimmed content;    *)
(* empty or longer than 2000 once trimmed: a validation error and no       *)
(* post; otherwise exactly one post is created, owned by the actor, with   *)
(* the trimmed content and likes_count 0                                   *)
CreatesPost(e) ==
    /\ e.result = "created"
    /\ e.post \notin DOMAIN posts
    /\ DOMAIN posts' = DOMAIN posts \cup {e.post}
    /\ \A pk \in DOMAIN posts : posts'[pk] = posts[pk]
    /\ posts'[e.post].author = e.user
    /\ posts'[e.post].content = Trimmed(e.content)
    /\ likes_count'[<<"post", e.post>>] = 0
    /\ \A t \in DOMAIN likes_count \ {<<"post", e.post>>} :
          likes_count'[t] = likes_count[t]

CreatePostValidates ==
    PostAnswered =>
        LET text == Trimmed(Answer.content) IN
        IF text = <<>> \/ Len(text) > 2000
        THEN RejectsPost(Answer)
        ELSE CreatesPost(Answer)

C22_CreatePostValidates == [][CreatePostValidates]_vars

(* A text of 2001 letters was refused; one of 2000 letters sent with a     *)
(* space in front, 2001 characters in all, made a post of 2000 characters  *)
C22_Witness ==
    /\ \E i \in DOMAIN log :
         /\ log[i].op = "create_post" /\ Len(log[i].content) = 2001
         /\ log[i].content[1] = "a" /\ log[i].content[2001] = "a"
         /\ log[i].result = "validation_error"
    /\ \E i \in DOMAIN log :
         /\ log[i].op = "create_post" /\ Len(log[i].content) = 2001
         /\ log[i].content[1] = " "
         /\ log[i].result = "created"
         /\ Len(posts[log[i].post].content) = 2000

----------------------------------------------------------------------------
(* C23 as stated: in listPosts and listComments the liked_by_current_user  *)
(* flag returned for a post or comment is true exactly when a Like record  *)
(* exists for (the actor the request acts as, that item), also when the    *)
(* request acts as the fallback demo actor                                 *)
ListAnswered == Answers /\ Answer.op \in {"list_posts", "list_comments"}

Liked(u, tt, id) == likes[<<u, tt, id>>] > 0

FlagsExact(e) ==
    /\ e.liked_comments = {id \in e.comments : Liked(e.user, "comment", id)}
    /\ e.op = "list_posts" =>
          e.liked_posts = {id \in e.posts : Liked(e.user, "post", id)}

C23_LikedFlagExact == [][ListAnswered => FlagsExact(Answer)]_vars

----------------------------------------------------------------------------
(* C24: a like that, holding the lock of its target, finds a Like of       *)
(* (actor, target) answers AlreadyLiked, writes nothing (no Like, no       *)
(* likes_count, no KarmaTransaction, no total_karma) and releases the      *)
(* lock of the target                                                      *)
HoldsTargetLock(w) == <<w, Table(req[w].target_type), req[w].pk>> \in locks

FindsExistingLike(w) ==
    /\ pc[w] = "check" /\ req[w].op = "like"
    /\ HoldsTargetLock(w)
    /\ likes[<<user[w], req[w].target_type, req[w].pk>>] > 0
    /\ pc'[w] # pc[w]

ExistingLikeAborts ==
    \A w \in Workers :
        FindsExistingLike(w) =>
            /\ Answers /\ Answer.op = "like" /\ Answer.result = "already_liked"
            /\ Answer.user = user[w] /\ Answer.pk = req[w].pk
            /\ NoEffect
            /\ \A l \in locks' : l[1] # w
            /\ tx'[w] = NoTx

C24_ExistingLikeAborts == [][ExistingLikeAborts]_vars

(* A like of an actor who had liked the target before was answered         *)
(* AlreadyLiked while another request was in progress, and no lock is left *)
C24_Witness ==
    /\ overlapped
    /\ \E i, j \in DOMAIN log :
         /\ i < j
         /\ Succeeded(log[i], "like")
         /\ log[j].op = "like" /\ log[j].result = "already_liked"
         /\ log[j].user = log[i].user
         /\ log[j].target_type = log[i].target_type /\ log[j].pk = log[i].pk
    /\ locks = {}

----------------------------------------------------------------------------
(* C25: if the insert of the Like violates the uniqueness constraint (the  *)
(* Like appeared after the existence check had passed), the like answers   *)
(* AlreadyLiked, never a raw storage error, and the unit is rolled back:   *)
(* Likes, likes_count, the KarmaTransaction log and total_karma are        *)
(* unchanged by it                                                         *)
InsertViolatesConstraint(w) ==
    /\ pc[w] = "create" /\ req[w].op = "like"
    /\ likes[<<user[w], req[w].target_type, req[w].pk>>] > 0
    /\ pc'[w] # pc[w]

ConstraintViolationAborts ==
    \A w \in Workers :
        InsertViolatesConstraint(w) =>
            /\ Answers /\ Answer.op = "like" /\ Answer.result = "already_liked"
            /\ Answer.user = user[w] /\ Answer.pk = req[w].pk
            /\ NoEffect
            /\ \A l \in locks' : l[1] # w
            /\ tx'[w] = NoTx

C25_ConstraintViolationAborts == [][ConstraintViolationAborts]_vars

(* A like was answered AlreadyLiked from its insert; the Like that made it *)
(* fail is the only one, and counter, log and totals are as at the start   *)
C25_Witness ==
    /\ \E i \in DOMAIN log :
         /\ log[i].op = "like" /\ log[i].result = "already_liked"
         /\ log[i].at = "create"
         /\ likes[<<log[i].user, log[i].target_type, log[i].pk>>] = 1
         /\ likes_count[<<log[i].target_type, log[i].pk>>] = 0
    /\ karma = <<>>
    /\ \A u \in RegisteredUsers : total_karma[u] = 0
    /\ locks = {}

----------------------------------------------------------------------------
(* C26 as stated: the lock serializes operations on the same target only:  *)
(* a like or unlike never waits for a like or unlike of a different        *)
(* target, also when the two targets have the same author                  *)
Waits(w) == InFlight(w) /\ ~ENABLED Step(w)

SameTarget(w, o) ==
    InFlight(o) /\ req[o].target_type = req[w].target_type /\ req[o].pk = req[w].pk

C26_OnlySameTargetWaits ==
    \A w \in Workers : Waits(w) => \E o \in Workers \ {w} : SameTarget(w, o)

(* C26, amended: a like or unlike waits only for one of the same target,   *)
(* or, when it is a like about to add to the total_karma of the author,    *)
(* for a like of another target of the same author that has added to that  *)
(* total_karma and has not committed yet; operations on targets of         *)
(* different authors never wait for each other                             *)
SameAuthorUpdating(w, o) ==
    /\ InFlight(o)
    /\ pc[w] = "total"
    /\ Author(req[o].target_type, req[o].pk) = Author(req[w].target_type, req[w].pk)
    /\ tx[o].dkarma > 0

C26_WaitsForTargetOrAuthor ==
    \A w \in Workers :
        Waits(w) => \E o \in Workers \ {w} : SameTarget(w, o) \/ SameAuthorUpdating(w, o)

(* Two likes of targets of different authors that have both done all       *)
(* their writes, neither committed; and each can go on                     *)
C26_Witness ==
    /\ posts[1].author # comments[1].author
    /\ pc["w1"] = "refresh" /\ pc["w2"] = "refresh"
    /\ req["w1"].op = "like" /\ req["w2"].op = "like"
    /\ req["w1"].target_type # req["w2"].target_type
    /\ Cardinality(locks) = 4
    /\ ENABLED Step("w1") /\ ENABLED Step("w2")

----------------------------------------------------------------------------
(* C27: no lost updates: when N likes by distinct actors have run, in any  *)
(* interleaving, on one target or on several targets that share an author  *)
(* or not, all N succeeded, the likes_count of each target has risen by    *)
(* the number of likes it received, and the total_karma of each author by  *)
(* the sum of the amounts awarded (5 per post like, 1 per comment like)    *)
LikesByDistinctActors ==
    /\ AllAnswered
    /\ log # <<>>
    /\ \A i \in DOMAIN log : log[i].op = "like"
    /\ \A i, j \in DOMAIN log : log[i].user = log[j].user => i = j

LikesOn(tt) == Cardinality({i \in DOMAIN log : log[i].target_type = tt})

Awarded(a) ==
    (IF posts[1].author = a THEN 5 * LikesOn("post") ELSE 0)
      + (IF comments[1].author = a THEN LikesOn("comment") ELSE 0)

C27_NoLostUpdates ==
    LikesByDistinctActors =>
        /\ \A i \in DOMAIN log : log[i].result = "success"
        /\ likes_count[<<"post", 1>>] = LikesOn("post")
        /\ likes_count[<<"comment", 1>>] = LikesOn("comment")
        /\ \A a \in RegisteredUsers : total_karma[a] = Awarded(a)
        /\ Len(karma) = Len(log)

(* Three actors liked the post and the comment of one author, two of the   *)
(* requests in progress together: 5 + 5 + 1 or 5 + 1 + 1 for the author    *)
C27_Witness ==
    /\ LikesByDistinctActors
    /\ overlapped
    /\ Len(log) = 3
    /\ posts[1].author = comments[1].author
    /\ LikesOn("post") >= 1 /\ LikesOn("comment") >= 1
    /\ total_karma[posts[1].author] \in {7, 11}

----------------------------------------------------------------------------
(* C28: under fair scheduling every like and unlike request that has been  *)
(* received is eventually answered (no set of concurrent requests          *)
(* deadlocks), and every row lock a request holds is eventually released,  *)
(* whichever way the request ends                                          *)
HoldsLock(w) == \E l \in locks : l[1] = w

C28_EveryRequestFinishes ==
    \A w \in Workers :
        /\ InFlight(w) ~> ~InFlight(w)
        /\ HoldsLock(w) ~> ~HoldsLock(w)

(* Requests have ended by a constraint violation and by NotFound, and    *)
(* no lock is held                                                       *)
C28_Witness ==
    /\ \E i \in DOMAIN log : log[i].result = "already_liked" /\ log[i].at = "create"
    /\ \E i \in DOMAIN log : log[i].result = "not_found"
    /\ overlapped
    /\ AllAnswered
    /\ locks = {}

----------------------------------------------------------------------------
(* C29: the KarmaTransaction log is append-only: across likes, unlikes and *)
(* the creation of comments and posts, every KarmaTransaction of one state *)
(* is there unchanged (recipient, amount, reason, source, liker,           *)
(* timestamp) in every later state, and all amounts written are positive   *)
KarmaKept ==
    /\ Len(karma') >= Len(karma)
    /\ \A i \in DOMAIN karma : karma'[i] = karma[i]

PositiveAmounts == \A i \in DOMAIN karma : karma[i].amount > 0

C29_AppendOnly == []PositiveAmounts /\ [][KarmaKept]_vars

(* A like was awarded and then taken back, and a comment or a post was     *)
(* created after it: the KarmaTransaction of the like is still the log     *)
C29_Witness ==
    /\ Len(log) = 3
    /\ Succeeded(log[1], "like")
    /\ Succeeded(log[2], "unlike")
    /\ log[3].op \in {"create_comment", "create_post"}
    /\ log[3].result = "created"
    /\ Len(karma) = 1
    /\ karma[1].liker = log[1].user /\ karma[1].source_id = log[1].pk

----------------------------------------------------------------------------
(* C30: a successful like returns as likes the likes_count of the target   *)
(* right after its own increment, which is the number of Like records on   *)
(* the target with the new one, and karma_awarded 5 for a post, 1 for a    *)
(* comment; a successful unlike returns the likes_count after its own      *)
(* decrement; also when others like or unlike the same target concurrently *)
ReturnsNewCount ==
    (Answers /\ Answer.op \in Ops /\ Answer.result = "success") =>
        LET target == <<Answer.target_type, Answer.pk>> IN
        IF Answer.op = "like"
        THEN /\ Answer.likes = likes_count[target] + 1
             /\ Answer.likes = likes_count'[target]
             /\ Answer.likes = LikeRows(target) + 1
             /\ Answer.karma_awarded = IF Answer.target_type = "post" THEN 5 ELSE 1
        ELSE /\ Answer.likes = likes_count[target] - 1
             /\ Answer.likes = likes_count'[target]

C30_ReturnsNewCount == [][ReturnsNewCount]_vars

(* Two actors liked one target while both requests were in progress: the   *)
(* answers were 1 and 2; then one of them unliked it: the answer was 1     *)
C30_Witness ==
    /\ overlapped
    /\ Len(log) = 3
    /\ Succeeded(log[1], "like") /\ log[1].likes = 1
    /\ Succeeded(log[2], "like") /\ log[2].likes = 2
    /\ Succeeded(log[3], "unlike") /\ log[3].likes = 1
    /\ log[1].user # log[2].user
    /\ \A i \in 2..3 : log[i].target_type = log[1].target_type /\ log[i].pk = log[1].pk

----------------------------------------------------------------------------
(* C31: within the root list and within every reply list that              *)
(* build_comment_tree produces, the comments are in the same relative      *)
(* order as in the input sequence                                          *)
Position(id) == CHOOSE i \in DOMAIN flat : flat[i].id = id

InInputOrder(list) ==
    \A a, b \in DOMAIN list : a < b => Position(list[a]) < Position(list[b])

C31_InputOrderKept ==
    \A j \in DOMAIN log :
        TreeBuilt(log[j]) =>
            /\ InInputOrder(log[j].roots)
            /\ \A id \in DOMAIN log[j].replies : InInputOrder(log[j].replies[id])

(* A comment with two replies that came in another order than that of      *)
(* their ids                                                               *)
C31_Witness ==
    \E j \in DOMAIN log :
        /\ TreeBuilt(log[j])
        /\ \E id \in DOMAIN log[j].replies :
              /\ Len(log[j].replies[id]) = 2
              /\ log[j].replies[id][1] > log[j].replies[id][2]

----------------------------------------------------------------------------
(* C32: after any interleaving of likes and unlikes the total_karma of     *)
(* every user is the total_karma the user started with plus the sum of the *)
(* amounts of the KarmaTransactions awarded to that user since, and only a *)
(* successful like changes the total_karma of a user                       *)

(* What a user has before any like: the registered users the totals of    *)
(* the first state, the demo user the total it is created with            *)
TotalAtStart(u) == IF u \in RegisteredUsers THEN 0 ELSE DEMO_TOTAL_KARMA

AwardedTo(u) == SumOfRows({i \in DOMAIN karma : karma[i].user = u})

TotalIsStartPlusAwards ==
    \A u \in DOMAIN total_karma : total_karma[u] = TotalAtStart(u) + AwardedTo(u)

OnlyLikeChangesTotal ==
    TotalKarmaKept \/ (Answers /\ Succeeded(Answer, "like"))

C32_CachedTotalConsistent ==
    []TotalIsStartPlusAwards /\ [][OnlyLikeChangesTotal]_vars

(* One author was awarded 5 and 1, a like was taken back, and the demo     *)
(* user was created by one of the requests                                 *)
C32_Witness ==
    /\ AllAnswered
    /\ posts[1].author = comments[1].author
    /\ total_karma[posts[1].author] = POST_LIKE_KARMA + COMMENT_LIKE_KARMA
    /\ Len(karma) = 2
    /\ DemoUser \in DOMAIN total_karma
    /\ \E i \in DOMAIN log : Succeeded(log[i], "unlike")

----------------------------------------------------------------------------
(* C33: for every liker and target, the KarmaTransactions with that liker, *)
(* that source and the reason of the target type are as many as the likes  *)
(* by that liker on that target that succeeded; after like, unlike, like   *)
(* by one actor on one target there are two KarmaTransactions, the author  *)
(* has been credited twice and likes_count is one                          *)
AwardsFor(u, t) ==
    Cardinality({i \in DOMAIN karma :
        /\ karma[i].liker = u
        /\ karma[i].source_id = t[2]
        /\ karma[i].reason = (IF t[1] = "post" THEN "post_like" ELSE "comment_like")})

LikesSucceeded(u, t) ==
    Cardinality({i \in DOMAIN log :
        /\ Succeeded(log[i], "like")
        /\ log[i].user = u
        /\ <<log[i].target_type, log[i].pk>> = t})

LikeUnlikeLike ==
    /\ AllAnswered
    /\ Len(log) = 3
    /\ Succeeded(log[1], "like")
    /\ Succeeded(log[2], "unlike")
    /\ Succeeded(log[3], "like")
    /\ \A i \in {2, 3} : /\ log[i].user = log[1].user
                          /\ log[i].target_type = log[1].target_type
                          /\ log[i].pk = log[1].pk

C33_OneAwardPerLike ==
    /\ \A u \in AllUsers, t \in Targets : AwardsFor(u, t) = LikesSucceeded(u, t)
    /\ LikeUnlikeLike =>
          LET t == <<log[1].target_type, log[1].pk>>
              amount == IF t[1] = "post" THEN 5 ELSE 1
          IN /\ Len(karma) = 2
             /\ total_karma[Author(t[1], t[2])] = 2 * amount
             /\ likes_count[t] = 1
             /\ likes[<<log[1].user, t[1], t[2]>>] = 1

(* The demo user liked comment 1, took the like back and liked it again *)
C33_Witness ==
    /\ LikeUnlikeLike
    /\ log[1].user = DemoUser
    /\ log[1].target_type = "comment"
    /\ AwardsFor(DemoUser, <<"comment", 1>>) = 2

----------------------------------------------------------------------------
(* C34: an unlike by one actor, whether it succeeds or not, leaves every   *)
(* Like of every other actor in place, and the likes_count of a target     *)
(* drops, by one, only when the Like of the actor who unlikes is deleted   *)
UnlikeAnswered == Answers /\ Answer.op = "unlike"

LikesOfOthersKept(e) ==
    \A t \in Triples : t[1] # e.user => likes'[t] = likes[t]

CountDropsWithOwnLike(e) ==
    \A t \in Targets :
        \/ likes_count'[t] = likes_count[t]
        \/ /\ likes_count'[t] = likes_count[t] - 1
           /\ t = <<e.target_type, e.pk>>
           /\ likes[<<e.user, t[1], t[2]>>] = 1
           /\ likes'[<<e.user, t[1], t[2]>>] = 0

UnlikeDeletesOwnLikeOnly ==
    UnlikeAnswered => LikesOfOthersKept(Answer) /\ CountDropsWithOwnLike(Answer)

C34_UnlikeDeletesOwnLikeOnly == [][UnlikeDeletesOwnLikeOnly]_vars

(* Two actors liked one target and one of them took the like back: the    *)
(* Like of the other is there and likes_count is one                      *)
C34_Witness ==
    \E j \in DOMAIN log : \E b \in AllUsers :
        /\ Succeeded(log[j], "unlike")
        /\ b # log[j].user
        /\ likes[<<b, log[j].target_type, log[j].pk>>] = 1
        /\ likes[<<log[j].user, log[j].target_type, log[j].pk>>] = 0
        /\ likes_count[<<log[j].target_type, log[j].pk>>] = 1

----------------------------------------------------------------------------
(* C35: the actor of every request is the authenticated user when there is *)
(* one and the one user demo_user otherwise, which is created with a       *)
(* total_karma of 100 when it does not exist; no request is left without   *)
(* an actor, and a like without credentials of a target that demo_user     *)
(* has liked answers AlreadyLiked                                          *)
ActorOf(caller) == IF caller = Anonymous THEN DemoUser ELSE caller

ResolvesActor(w) ==
    (pc[w] = "auth" /\ pc'[w] # "auth") =>
        /\ pc'[w] = "select"
        /\ user'[w] = ActorOf(req[w].caller)
        /\ user'[w] \in users'
        /\ IF user'[w] \in users
           THEN users' = users /\ total_karma' = total_karma
           ELSE /\ user'[w] = DemoUser
                /\ users' = users \cup {DemoUser}
                /\ total_karma'[DemoUser] = 100
                /\ TotalKarmaKept

AnsweredAsActor ==
    Answers =>
        /\ Answer.user = ActorOf(Answer.caller)
        /\ Answer.result # "unauthorized"

SecondAnonymousLike ==
    (/\ Answers
     /\ Answer.op = "like"
     /\ Answer.caller = Anonymous
     /\ likes[<<DemoUser, Answer.target_type, Answer.pk>>] = 1)
        => Answer.result = "already_liked"

ActorResolution ==
    /\ \A w \in Workers : ResolvesActor(w)
    /\ AnsweredAsActor
    /\ SecondAnonymousLike

C35_ActorResolution == [][ActorResolution]_vars

(* Two likes without credentials of one target, the first a success and    *)
(* the second AlreadyLiked, and a request of u1 served as u1               *)
C35_Witness ==
    /\ Len(log) = 3
    /\ \E i, j \in DOMAIN log :
          /\ i < j
          /\ log[i].caller = Anonymous /\ log[j].caller = Anonymous
          /\ log[i].user = DemoUser /\ log[j].user = DemoUser
          /\ Succeeded(log[i], "like")
          /\ log[j].op = "like" /\ log[j].result = "already_liked"
          /\ log[j].target_type = log[i].target_type /\ log[j].pk = log[i].pk
    /\ \E k \in DOMAIN log : log[k].caller = "u1" /\ log[k].user = "u1"
    /\ total_karma[DemoUser] = 100

----------------------------------------------------------------------------
(* C36: the likes of a post and of a comment with the same id are          *)
(* independent: a like or unlike of one leaves the Likes and the           *)
(* likes_count of the other as they are, and a like answers AlreadyLiked   *)
(* only when the actor has a Like of that very target, whatever the actor  *)
(* has liked of the other type                                             *)
OtherType(tt) == IF tt = "post" THEN "comment" ELSE "post"

OtherTypeUntouched(e) ==
    /\ likes_count'[<<OtherType(e.target_type), e.pk>>]
           = likes_count[<<OtherType(e.target_type), e.pk>>]
    /\ \A u \in AllUsers :
          likes'[<<u, OtherType(e.target_type), e.pk>>]
             = likes[<<u, OtherType(e.target_type), e.pk>>]

AlreadyLikedOfSameType(e) ==
    e.result = "already_liked" => likes[<<e.user, e.target_type, e.pk>>] = 1

LikeOfOtherTypeSucceeds(e) ==
    (/\ e.op = "like"
     /\ Exists(e.target_type, e.pk)
     /\ likes[<<e.user, e.target_type, e.pk>>] = 0
     /\ likes[<<e.user, OtherType(e.target_type), e.pk>>] = 1)
        => e.result = "success"

TypesIndependent ==
    (Answers /\ Answer.op \in Ops) =>
        /\ OtherTypeUntouched(Answer)
        /\ AlreadyLikedOfSameType(Answer)
        /\ LikeOfOtherTypeSucceeds(Answer)

C36_TypesIndependent == [][TypesIndependent]_vars

(* One actor liked post 1 and comment 1, both with success, and took the   *)
(* like of the post back: the Like of the comment is there                 *)
C36_Witness ==
    /\ Len(log) = 3
    /\ Succeeded(log[1], "like") /\ Succeeded(log[2], "like")
    /\ Succeeded(log[3], "unlike")
    /\ log[1].pk = 1 /\ log[2].pk = 1 /\ log[3].pk = 1
    /\ log[1].target_type = "post" /\ log[2].target_type = "comment"
    /\ log[3].target_type = "post"
    /\ log[2].user = log[1].user /\ log[3].user = log[1].user
    /\ likes[<<log[1].user, "post", 1>>] = 0
    /\ likes[<<log[1].user, "comment", 1>>] = 1
    /\ likes_count[<<"post", 1>>] = 0
    /\ likes_count[<<"comment", 1>>] = 1

----------------------------------------------------------------------------
(* C37: an actor can like a target the actor is the author of: the like of *)
(* an own target not liked before succeeds, appends a KarmaTransaction     *)
(* with the actor as recipient and as liker, and raises the total_karma of *)
(* the actor and the karma the leaderboard reports for the actor by 5 for  *)
(* a post and by 1 for a comment                                           *)
SelfLike(e) ==
    /\ e.op = "like"
    /\ Exists(e.target_type, e.pk)
    /\ e.user = Author(e.target_type, e.pk)

(* karma_24h of u in the leaderboard of these rows, 0 when u is not listed *)
BoardKarma(rows, u) ==
    LET board == CHOOSE r \in LeaderboardResponses(rows, now, users, total_karma) : TRUE
        at == {i \in DOMAIN board : board[i].user.username = u}
    IN IF at = {} THEN 0 ELSE board[CHOOSE i \in at : TRUE].karma_24h

SelfLikeAwards(e) ==
    LET amount == IF e.target_type = "post" THEN 5 ELSE 1
    IN /\ e.result = "success"
       /\ e.karma_awarded = amount
       /\ Len(karma') = Len(karma) + 1
       /\ karma'[Len(karma')].user = e.user
       /\ karma'[Len(karma')].liker = e.user
       /\ karma'[Len(karma')].amount = amount
       /\ total_karma'[e.user] = total_karma[e.user] + amount
       /\ BoardKarma(karma', e.user) = BoardKarma(karma, e.user) + amount

SelfLikeSucceeds ==
    (/\ Answers
     /\ SelfLike(Answer)
     /\ likes[<<Answer.user, Answer.target_type, Answer.pk>>] = 0)
        => SelfLikeAwards(Answer)

C37_SelfLikeSucceeds == [][SelfLikeSucceeds]_vars

(* u1 liked the post and the comment u1 wrote, and the leaderboard then    *)
(* listed u1 with the 6 points u1 gave to u1                               *)
C37_Witness ==
    /\ Len(log) = 3
    /\ Succeeded(log[1], "like") /\ Succeeded(log[2], "like")
    /\ log[1].user = "u1" /\ log[2].user = "u1"
    /\ posts[1].author = "u1" /\ comments[1].author = "u1"
    /\ \A i \in DOMAIN karma : karma[i].user = "u1" /\ karma[i].liker = "u1"
    /\ total_karma["u1"] = 6
    /\ log[3].op = "leaderboard"
    /\ Len(log[3].entries) = 1
    /\ log[3].entries[1].user.username = "u1"
    /\ log[3].entries[1].karma_24h = 6

----------------------------------------------------------------------------
(* C38: build_comment_tree sets the liked flag of each comment of the      *)
(* input to true exactly when the id of the comment is in the set of       *)
(* liked ids it is given, and to false for every comment when it is given  *)
(* no set, whatever flags an earlier run left on the objects               *)

(* No set, the empty set, and a set of ids of the list and of another id *)
LikedSets == {<<>>, <<{}>>, <<{1, 3, MaxComments + 1}>>}

FlagsOf(tree) == {id \in DOMAIN tree.attrs : tree.attrs[id].liked_by_user}

C38_LikedFlagFollowsSet ==
    /\ \A given \in LikedSets :
          LET tree == build_comment_tree(flat, objs, given)
          IN /\ DOMAIN tree.attrs = CommentIds(flat)
             /\ FlagsOf(tree) = IF given = <<>> THEN {}
                                ELSE CommentIds(flat) \cap given[1]
    /\ \A j \in DOMAIN log :
          TreeBuilt(log[j]) => log[j].liked \in {{}, CommentIds(flat) \cap {1}}
    /\ (log # <<>> /\ TreeBuilt(log[Len(log)])) => log[Len(log)].liked = FlagsOf([attrs |-> objs])

(* A run that was given {1} flagged comment 1 of a list of several         *)
(* comments, and a later run on the same objects that was given no set     *)
(* took the flag back                                                      *)
C38_Witness ==
    /\ Len(log) >= 2
    /\ Len(flat) >= 2
    /\ TreeBuilt(log[1]) /\ log[1].liked = {1}
    /\ TreeBuilt(log[2]) /\ log[2].liked = {}
    /\ 1 \in DOMAIN objs /\ ~objs[1].liked_by_user

====
